---- MODULE Spec2Model ----
(***************************************************************************)
(* Verification model of the scroll / marquee animation core of            *)
(* baba-portfolio.                                                         *)
(*                                                                         *)
(*   - the smooth scroll tracker  (src/src/context/SmoothScrollContext.jsx)*)
(*   - the marquee of the photo hero                                       *)
(*                        (src/src/components/photos/FloatingGalleryHero)  *)
(*                                                                         *)
(* Numbers.  The program computes with IEEE doubles; the model computes    *)
(* with fixed point integers.  Scroll positions are counted in units of    *)
(* 1/(RoundFactor*Sub) px, so that the 1/100 px grid of Math.round(x*100)  *)
(* /100 is coarser than the grid the interpolation runs on.  A product     *)
(* with a fraction is rounded to the nearest unit, as a floating point     *)
(* multiplication rounds to the nearest representable number.              *)
(***************************************************************************)
EXTENDS Integers, Sequences, FiniteSets, TLC

VARIABLES
  \* ---- scroll tracker (SmoothScrollProvider) ----
  contentHeight,    \* content.scrollHeight, in units
  innerHeight,      \* window.innerHeight, in units
  current,          \* scrollDataRef.current.current
  target,           \* scrollDataRef.current.target
  ease,             \* scrollDataRef.current.ease, in percent
  isScrolling,      \* scrollDataRef.current.isScrolling
  rafPending,       \* a requestAnimationFrame(updateScroll) callback is queued
  transformY,       \* v of content.style.transform = translateY(-v px)
  scrollY,          \* the React state scrollY
  touchStart,       \* touchStartRef.current
  scrollListeners,  \* scrollListenersRef.current, in insertion order
  delivered,        \* per listener: the calls it received in the last frame
  threw,            \* the last updateScroll ended by an exception
  \* ---- marquee (FloatingGalleryHero) ----
  marqueeOffset,    \* marqueeOffsetRef.current, in 1/1000 vw
  selectedIndex,    \* selectedIndex and selectedIndexRef.current
  prevIndex,        \* prevIndex and prevIndexRef.current (-1: null)
  isTransitioning,  \* isTransitioningRef.current
  offsetAnim,       \* offsetAnimRef.current, the strip-shift animation
  timerAt,          \* when the timer of prevTimeoutRef fires (-1: none)
  mouseX,           \* mouseXRef.current, in 1/1000
  scrollProgress,   \* scrollProgressRef.current, in px
  lastTime,         \* lastTime of the rAF loop
  now,              \* the clock, in ms
  applied,          \* what moved the offset in the last tick
  nTicks,           \* ticks so far (bounded by the run)
  nSelects,         \* select calls so far (bounded by the run)
  heroStyle,        \* style of the selected image element: left and top in
                    \* 1/100 %, scale in 1/100000
  stripT,           \* t of the strip-shift in the last tick, in 1/1000 (-1: none)
  isGrown,          \* isGrownRef.current
  navigated,        \* the image whose detail page navigate() was asked for
                    \* (-1: no navigation)
  activated,        \* the last activation: <<item, selection, grown>> (<<>>: none)
  selectedAt,       \* the time of the last select that changed the selection
                    \* (-1: none)
  layoutImages,     \* the image list a marquee layout is computed for
  layoutOut,        \* the layout computed for it (<<>>: not yet)
  layoutPos,        \* <<i, o, x at offset o, x at offset o + totalWidth>>
  hsStage,          \* HeroSection: "none", "rendered" (first render committed,
                    \* effects not yet run) or "mounted"
  hsWidth,          \* window.innerWidth, in px
  hsVh,             \* window.innerHeight, in px
  hsReduced,        \* prefersReducedMotion
  hsScrollProgress, \* the state scrollProgress, in 1/HsPx px
  hsMousePosition,  \* the state mousePosition, <<x, y>> in 1/1000
  hsTransform,      \* the state transform
  hsRaf,            \* rafRef: a frame with updateTransform is requested
  hsDrawn,          \* the scrollProgress the last updateTransform read (-1: none)
  stStage,          \* useStaggeredText: "none" or "mounted" (its effect has run)
  stReduced,        \* prefersReducedMotion
  stStaticWords,    \* the option staticWords, in percent
  stWords,          \* the word spans: index -> [static, type, delay, progress,
                    \* offset]; offset is the rendered translateX in 1/1000 em
  stCenter,         \* the centre of the words in the window, in 1/1000 of
                    \* its height
  stRaf,            \* rafRef: a frame with updateAnimation is requested
  stFrames,         \* frames run so far (bounded by the run)
  \* ---- shortestWrappingDelta, applied to drawn inputs ----
  swCurrent, swTarget, swTotal, swDelta, swDone,
  \* ---- mounting and unmounting of the components ----
  lifecycle,        \* [unmounted: the components torn down, listeners: the
                    \* <<component, event>> registered on window, frames: the
                    \* frame callbacks of the marquee that are requested, late:
                    \* the callbacks that ran after their component's teardown]
  \* ---- bookkeeping of the run ----
  lastOp,           \* the last operation (handler, API call, frame) run
  lastArg,          \* its arguments, a tuple
  nInputs,          \* operations performed so far (bounded by the run)
  pressed           \* PageDown presses since rest at 0 (-1: other input seen)

scrollVars == <<contentHeight, innerHeight, current, target, ease, isScrolling,
                rafPending, transformY, scrollY, touchStart, scrollListeners,
                delivered, threw>>
runVars == <<lastOp, lastArg, nInputs, pressed>>

marqueeVars == <<marqueeOffset, selectedIndex, prevIndex, isTransitioning,
                 offsetAnim, timerAt, mouseX, scrollProgress, lastTime, now,
                 applied, nTicks, nSelects, heroStyle, stripT, isGrown,
                 navigated, activated, selectedAt>>
swVars == <<swCurrent, swTarget, swTotal, swDelta, swDone>>
layoutVars == <<layoutImages, layoutOut, layoutPos>>
heroVars == <<hsStage, hsWidth, hsVh, hsReduced, hsScrollProgress,
              hsMousePosition, hsTransform, hsRaf, hsDrawn>>
textVars == <<stStage, stReduced, stStaticWords, stWords, stCenter, stRaf,
              stFrames>>
mountVars == <<lifecycle>>
sideVars == <<swVars, layoutVars, heroVars, textVars, mountVars>>

vars == <<scrollVars, runVars, marqueeVars, sideVars>>

-----------------------------------------------------------------------------
(* Bounds of the model *)

\* sub-divisions of 1/100 px the interpolation is computed on
Sub == 4
\* operations (input events, API calls) per run of the general scroll model
MaxInputs == 2

(* Program constants *)

\* Math.round(data.current * 100) / 100
RoundFactor == 100
\* const arrowStep = 100
ArrowStep == 100
\* const pageHeight = window.innerHeight * 0.9, in percent
PagePercent == 90
\* if (diff > 0.5), in tenths of a pixel
SnapTenths == 5
\* smoothness = 0.08, in percent
DefaultEase == 8

\* units per pixel
Scale == RoundFactor * Sub
Px(p) == p * Scale

Max(a, b) == IF a >= b THEN a ELSE b
Min(a, b) == IF a <= b THEN a ELSE b
Abs(a) == IF a >= 0 THEN a ELSE -a

\* x * num / den rounded to the nearest unit (half up), the model's
\* counterpart of a floating point product
MulFrac(x, num, den) == (2 * x * num + den) \div (2 * den)

-----------------------------------------------------------------------------
(* Pure functions of SmoothScrollContext.jsx *)

\* lerp with the sign of the step slipped
lerpAway(start, end, factor) == start - MulFrac(end - start, factor, 100)

\* function lerp(start, end, factor)
lerp(start, end, factor) == start + MulFrac(end - start, factor, 100)

\* Math.round(data.current * 100) / 100: Math.round rounds half up
Rounded(x) == ((2 * x + Sub) \div (2 * Sub)) * Sub

\* content.scrollHeight - window.innerHeight
MaxScrollOf(content, inner) == content - inner
maxScroll == MaxScrollOf(contentHeight, innerHeight)

\* the clamp without its lower bound, as handleResize has it
ClampScrollNoFloor(position, ms) == Min(position, ms)

\* Math.max(0, Math.min(position, maxScroll))
ClampScroll(position, ms) == Max(0, Min(position, ms))

\* diff > 0.5
AboveSnap(diff) == 10 * diff > SnapTenths * Scale

-----------------------------------------------------------------------------
(* Scroll listeners *)

\* the subscribers of the model: "a" and "b" return normally, "bad" throws
ListenerIds == {"a", "b", "bad"}
Throws(l) == l = "bad"

NoCalls == [l \in ListenerIds |-> <<>>]

\* scrollListenersRef.current.forEach(listener => listener(value)):
\* the listeners are called in insertion order; an exception thrown by a
\* listener propagates out of forEach, so the later listeners are not called
RECURSIVE Notify(_, _, _, _)
Notify(ls, i, del, value) ==
  IF i > Len(ls) THEN [delivered |-> del, threw |-> FALSE]
  ELSE LET d2 == [del EXCEPT ![ls[i]] = Append(@, value)]
       IN  IF Throws(ls[i]) THEN [delivered |-> d2, threw |-> TRUE]
           ELSE Notify(ls, i + 1, d2, value)

InSeq(x, s) == \E i \in 1..Len(s) : s[i] = x
RemoveFrom(s, x) == SelectSeq(s, LAMBDA y : y # x)

-----------------------------------------------------------------------------
(* Operations of the scroll tracker *)

\* if (!data.isScrolling) { data.isScrolling = true;
\*                          data.rafId = requestAnimationFrame(updateScroll) }
StartLoop ==
  /\ isScrolling' = TRUE
  /\ rafPending' = (IF isScrolling THEN rafPending ELSE TRUE)

\* const updateScroll = useCallback(() => { ... })
UpdateScroll ==
  /\ rafPending
  /\ LET c1 == lerp(current, target, ease)
         rounded == Rounded(c1)
         n1 == Notify(scrollListeners, 1, NoCalls, rounded)
         n2 == Notify(scrollListeners, 1, n1.delivered, target)
     IN  IF n1.threw
         THEN \* the exception leaves updateScroll before the rescheduling
              /\ current' = c1
              /\ transformY' = rounded
              /\ scrollY' = rounded
              /\ delivered' = n1.delivered
              /\ threw' = TRUE
              /\ rafPending' = FALSE
              /\ UNCHANGED isScrolling
         ELSE IF AboveSnap(Abs(target - c1))
         THEN /\ current' = c1
              /\ transformY' = rounded
              /\ scrollY' = rounded
              /\ delivered' = n1.delivered
              /\ threw' = FALSE
              /\ rafPending' = TRUE
              /\ UNCHANGED isScrolling
         ELSE /\ current' = target
              /\ transformY' = target
              /\ scrollY' = target
              /\ delivered' = n2.delivered
              /\ threw' = n2.threw
              /\ rafPending' = FALSE
              /\ isScrolling' = (IF n2.threw THEN isScrolling ELSE FALSE)
  /\ lastOp' = "frame"
  /\ lastArg' = <<>>
  /\ UNCHANGED <<contentHeight, innerHeight, target, ease, touchStart,
                 scrollListeners>>

\* const handleWheel = useCallback((e) => { ... })
HandleWheel(deltaY) ==
  /\ target' = ClampScroll(target + deltaY, maxScroll)
  /\ StartLoop
  /\ lastOp' = "wheel"
  /\ lastArg' = <<deltaY>>
  /\ UNCHANGED <<contentHeight, innerHeight, current, ease, transformY,
                 scrollY, touchStart, scrollListeners, delivered, threw>>

ScrollKeys == {"ArrowDown", "ArrowUp", "PageDown", " ", "PageUp", "Home", "End"}

\* the switch with PageDown paging upwards
KeyDeltaPageSign(key, shiftKey, pageHeight) ==
  CASE key = "ArrowDown" -> Px(ArrowStep)
    [] key = "ArrowUp"   -> -Px(ArrowStep)
    [] key \in {"PageDown", " ", "PageUp"} -> -pageHeight
    [] OTHER             -> 0

\* the delta of the switch (e.key) of handleKeyDown
KeyDelta(key, shiftKey, pageHeight) ==
  CASE key = "ArrowDown" -> Px(ArrowStep)
    [] key = "ArrowUp"   -> -Px(ArrowStep)
    [] key \in {"PageDown", " "} -> (IF ~shiftKey THEN pageHeight ELSE 0)
    [] key = "PageUp"    -> -pageHeight
    [] OTHER             -> 0

\* data.target after the switch (e.key): Home and End assign it
KeyAssign(key, tgt, ms) ==
  CASE key = "Home" -> 0
    [] key = "End"  -> ms
    [] OTHER        -> tgt

\* data.target at the end of handleKeyDown
KeyTarget(key, shiftKey, tgt, ms, inner) ==
  LET delta == KeyDelta(key, shiftKey, MulFrac(inner, PagePercent, 100))
      t1 == KeyAssign(key, tgt, ms)
  IN  IF delta # 0 THEN ClampScroll(t1 + delta, ms) ELSE t1

\* const handleKeyDown = useCallback((e) => { ... })
HandleKeyDown(key, shiftKey) ==
  /\ lastOp' = "key"
  /\ lastArg' = <<0, 0, key>>
  /\ IF key \in ScrollKeys
     THEN /\ target' = KeyTarget(key, shiftKey, target, maxScroll, innerHeight)
          /\ StartLoop
     ELSE \* default: return
          UNCHANGED <<target, isScrolling, rafPending>>
  /\ UNCHANGED <<contentHeight, innerHeight, current, ease, transformY,
                 scrollY, touchStart, scrollListeners, delivered, threw>>

\* const handleTouchStart = useCallback((e) => { ... })
HandleTouchStart(clientY) ==
  /\ touchStart' = clientY
  /\ lastOp' = "touchstart"
  /\ lastArg' = <<clientY>>
  /\ UNCHANGED <<contentHeight, innerHeight, current, target, ease,
                 isScrolling, rafPending, transformY, scrollY,
                 scrollListeners, delivered, threw>>

\* const handleTouchMove = useCallback((e) => { ... })
HandleTouchMove(touchY) ==
  /\ touchStart' = touchY
  /\ target' = ClampScroll(target + (touchStart - touchY), maxScroll)
  /\ StartLoop
  /\ lastOp' = "touchmove"
  /\ lastArg' = <<touchY>>
  /\ UNCHANGED <<contentHeight, innerHeight, current, ease, transformY,
                 scrollY, scrollListeners, delivered, threw>>

\* the body of scrollTo(position, instant)
ScrollToBody(position, instant) ==
  LET targetPos == ClampScroll(position, maxScroll)
  IN  IF instant
      THEN /\ current' = targetPos
           /\ target' = targetPos
           /\ transformY' = targetPos
           /\ UNCHANGED <<isScrolling, rafPending>>
      ELSE /\ target' = targetPos
           /\ StartLoop
           /\ UNCHANGED <<current, transformY>>

\* const scrollTo = useCallback((position, instant = false) => { ... })
ScrollTo(position, instant) ==
  /\ ScrollToBody(position, instant)
  /\ lastOp' = (IF instant THEN "scrollToInstant" ELSE "scrollToSmooth")
  /\ lastArg' = <<position>>
  /\ UNCHANGED <<contentHeight, innerHeight, ease, scrollY, touchStart,
                 scrollListeners, delivered, threw>>

\* targetScroll of scrollToElement, from the two bounding boxes the browser
\* reports: the content is fixed at top 0 and translated by -transformY, so
\* its box top is -transformY and the box top of an element at elTop inside
\* the content is elTop - transformY
ElementTargetScroll(elTop, elHeight, block, offset, cur, shift, inner) ==
  LET contentRectTop == -shift
      elementRectTop == elTop - shift
      elementTop == elementRectTop - contentRectTop + cur
  IN  CASE block = "center" ->
             elementTop - (inner \div 2) + (elHeight \div 2) + offset
        [] block = "end" -> elementTop - inner + elHeight + offset
        [] OTHER -> elementTop + offset

\* const scrollToElement = useCallback((element, options = {}) => { ... })
ScrollToElement(elTop, elHeight, block, offset, instant) ==
  /\ ScrollToBody(ElementTargetScroll(elTop, elHeight, block, offset,
                                      current, transformY, innerHeight),
                  instant)
  /\ lastOp' = "scrollToElement"
  /\ lastArg' = <<elTop, elHeight, block, offset>>
  /\ UNCHANGED <<contentHeight, innerHeight, ease, scrollY, touchStart,
                 scrollListeners, delivered, threw>>

\* const handleResize = () => { ... }, after the window and the content took
\* their new heights
HandleResize(newContent, newInner) ==
  /\ contentHeight' = newContent
  /\ innerHeight' = newInner
  /\ target' = Min(target, MaxScrollOf(newContent, newInner))
  /\ current' = Min(current, MaxScrollOf(newContent, newInner))
  /\ lastOp' = "resize"
  /\ lastArg' = <<>>
  /\ UNCHANGED <<ease, isScrolling, rafPending, transformY, scrollY,
                 touchStart, scrollListeners, delivered, threw>>

\* const addScrollListener = useCallback((listener) => { ... }): Set.add
AddScrollListener(l) ==
  /\ ~InSeq(l, scrollListeners)
  /\ scrollListeners' = Append(scrollListeners, l)
  /\ lastOp' = "subscribe"
  /\ lastArg' = <<>>
  /\ UNCHANGED <<contentHeight, innerHeight, current, target, ease,
                 isScrolling, rafPending, transformY, scrollY, touchStart,
                 delivered, threw>>

\* return () => scrollListenersRef.current.delete(listener)
Unsubscribe(l) ==
  /\ InSeq(l, scrollListeners)
  /\ scrollListeners' = RemoveFrom(scrollListeners, l)
  /\ lastOp' = "unsubscribe"
  /\ lastArg' = <<>>
  /\ UNCHANGED <<contentHeight, innerHeight, current, target, ease,
                 isScrolling, rafPending, transformY, scrollY, touchStart,
                 delivered, threw>>

\* getScrollPosition()
getScrollPosition == current

-----------------------------------------------------------------------------
(* The marquee of FloatingGalleryHero.jsx.  Horizontal lengths are counted *)
(* in 1/1000 vw, times in ms, ratios in 1/1000.                            *)

\* units per vw: the resolution horizontal lengths are computed on
Vw == 1000
\* const MAX_VISIBLE = 9
MAX_VISIBLE == 9
\* const MARQUEE_GAP_VW = 1
MARQUEE_GAP_VW == 1
\* const MARQUEE_BASE_SPEED = 0.008, in 1/1000 vw per frame
MARQUEE_BASE_SPEED == 8
\* const MARQUEE_MOUSE_SPEED = 0.08, in 1/1000 vw per frame
MARQUEE_MOUSE_SPEED == 80
\* const ROW_TOPS = [3, 16, 30]
ROW_TOPS == <<3, 16, 30>>
\* const ROW_JITTER = 6
ROW_JITTER == 6
\* const ROW_DEPTH_SCALE = [0.55, 1.0, 1.5], in percent
ROW_DEPTH_SCALE == <<55, 100, 150>>
\* const STRIP_SHIFT_MS = 700
STRIP_SHIFT_MS == 700
\* const TRANSITION_DURATION_MS = 4000
TRANSITION_DURATION_MS == 4000
\* Math.min(timestamp - lastTime, 50)
MaxFrameGap == 50
\* speed * (dt / 16.67): the frame interval, in 1/100 ms
FrameInterval == 1667
\* the viewport centre of "... / 2 - 50", in vw
ViewportCentre == 50
\* const GROW_PHASE_VH_MULTIPLIER = 1.1, in tenths
GROW_PHASE_VH_MULTIPLIER == 11
\* const SCROLL_SCALE_MAX = 1.5, in percent
SCROLL_SCALE_MAX == 150
\* const DEPTH_SCALE_CENTER = 1.2, in percent
DEPTH_SCALE_CENTER == 120
\* const DEPTH_SCALE_EDGE = 0.85, in percent
DEPTH_SCALE_EDGE == 85
\* the margin of wrapThreshold = totalWidth - maxScaledWidth - 5, in vw
WrapMargin == 5
\* units of a scale factor: 1/100000
ScaleUnit == 100000

\* DESKTOP_HERO_IMAGES: <<width in vw, top, left>> of each image
DESKTOP_HERO_IMAGES ==
  << <<18, 14, 3>>,  <<11, 22, 30>>, <<27, 8, 55>>,  <<16, 30, 38>>,
     <<30, 42, 3>>,  <<25, 33, 62>>, <<22, 18, 15>>, <<16, 38, 45>>,
     <<13, 12, 70>>, <<19, 28, 20>>, <<24, 10, 50>>, <<20, 35, 10>>,
     <<12, 40, 55>>, <<17, 25, 35>>, <<15, 32, 75>> >>

\* the JavaScript remainder a % n (n > 0): it has the sign of the dividend
JsRem(a, n) == IF a >= 0 THEN a % n ELSE -((-a) % n)

\* the remainder taken once: negative for a negative x
WrapOffsetOnce(x, totalWidth) == JsRem(x, totalWidth)

\* ((x % totalWidth) + totalWidth) % totalWidth
WrapOffset(x, totalWidth) == JsRem(JsRem(x, totalWidth) + totalWidth, totalWidth)

\* function findCenterImageIndex(images): the first image nearest to (50, 50)
CenterDist(img) == (img[3] - 50) * (img[3] - 50) + (img[2] - 50) * (img[2] - 50)
findCenterImageIndex(images) ==
  CHOOSE i \in 0..(Len(images) - 1) :
    /\ \A j \in 0..(Len(images) - 1) :
         CenterDist(images[i + 1]) <= CenterDist(images[j + 1])
    /\ \A j \in 0..(i - 1) :
         CenterDist(images[j + 1]) > CenterDist(images[i + 1])

\* easeOutCubic without the "1 -": it falls from 1 to 0
easeInCubicFalling(t) == MulFrac((1000 - t) * (1000 - t) * (1000 - t), 1, 1000000)

\* function easeOutCubic(t), t and the result in 1/1000
easeOutCubic(t) == 1000 - MulFrac((1000 - t) * (1000 - t) * (1000 - t), 1, 1000000)

\* shortestWrappingDelta without its second correction
shortestWrappingDeltaOneSided(cur, tgt, totalWidth) ==
  LET c == WrapOffset(cur, totalWidth)
      t == WrapOffset(tgt, totalWidth)
      d0 == t - c
  IN  IF 2 * d0 > totalWidth THEN d0 - totalWidth ELSE d0

\* function shortestWrappingDelta(current, target, totalWidth)
shortestWrappingDelta(cur, tgt, totalWidth) ==
  LET c == WrapOffset(cur, totalWidth)
      t == WrapOffset(tgt, totalWidth)
      d0 == t - c
      d1 == IF 2 * d0 > totalWidth THEN d0 - totalWidth ELSE d0
  IN  IF 2 * d1 < -totalWidth THEN d1 + totalWidth ELSE d1

RECURSIVE SumSeq(_)
SumSeq(s) == IF s = <<>> THEN 0 ELSE Head(s) + SumSeq(Tail(s))
\* the first element taken for the largest
MaxSeqTakesHead(s) == s[1]

RECURSIVE MaxSeq(_)
MaxSeq(s) == IF Len(s) = 1 THEN s[1] ELSE Max(Head(s), MaxSeq(Tail(s)))

\* const marqueeLayout = useMemo(() => { ... }, [])
LayoutOf(images) ==
  LET N == Len(images)
      widthsVw == [i \in 1..N |-> images[i][1] * Vw]
      avgWidth == MulFrac(SumSeq(widthsVw), 1, N)
      targetSlotWidth == MulFrac(100 * Vw, 1, Min(N, MAX_VISIBLE))
      \* baseScale in 1/1000
      baseScale == MulFrac(targetSlotWidth, 1000, avgWidth + MARQUEE_GAP_VW * Vw)
      rows == [i \in 1..N |-> (i - 1) % 3]
      scaledWidths == [i \in 1..N |->
                         MulFrac(MulFrac(widthsVw[i], baseScale, 1000),
                                 ROW_DEPTH_SCALE[rows[i] + 1], 100)]
      scaledGap == MulFrac(MARQUEE_GAP_VW * Vw, baseScale, 1000)
      naturalTotal == SumSeq(scaledWidths) + N * scaledGap
      maxWidth == MaxSeq(scaledWidths)
      minTotal == 100 * Vw + maxWidth + scaledGap
      totalWidth == Max(naturalTotal, minTotal)
      extraPerSlot == MulFrac(totalWidth - naturalTotal, 1, N)
      effectiveGap == scaledGap + extraPerSlot
      basePositions == [i \in 1..N |->
                          SumSeq(SubSeq(scaledWidths, 1, i - 1))
                            + (i - 1) * effectiveGap]
      topValues == [i \in 1..N |->
                      ROW_TOPS[rows[i] + 1] + (((i - 1) * 3) % ROW_JITTER)]
      initialIndex == findCenterImageIndex(images)
      initialOffset ==
        WrapOffset(basePositions[initialIndex + 1]
                     + (scaledWidths[initialIndex + 1] \div 2)
                     - ViewportCentre * Vw,
                   totalWidth)
  IN  [basePositions |-> basePositions, scaledWidths |-> scaledWidths,
       totalWidth |-> totalWidth, topValues |-> topValues, rows |-> rows,
       maxScaledWidth |-> maxWidth, initialOffset |-> initialOffset,
       effectiveGap |-> effectiveGap]

marqueeLayout == LayoutOf(DESKTOP_HERO_IMAGES)
NumImages == Len(DESKTOP_HERO_IMAGES)

\* offsetAnimRef.current = null
NoAnim == [active |-> FALSE, startOffset |-> 0, delta |-> 0, startTime |-> -1,
           duration |-> 0, startDepthScale |-> 0, startTop |-> 0]

\* const t = Math.min(1, elapsed / anim.duration), in 1/1000
ShiftT(anim, startTime, timestamp) ==
  Min(1000, MulFrac(timestamp - startTime, 1000, anim.duration))

\* the strip-shift branch of tick: the offset of an animation at `timestamp`
ShiftOffset(anim, startTime, timestamp, totalWidth) ==
  LET eased == easeOutCubic(ShiftT(anim, startTime, timestamp))
  IN  WrapOffset(anim.startOffset + MulFrac(anim.delta, eased, 1000), totalWidth)

\* Number.prototype.toFixed: x rounded to the nearest multiple of `step`,
\* halves away from 0
ToFixed(x, step) ==
  IF x >= 0 THEN ((2 * x + step) \div (2 * step)) * step
  ELSE -(((2 * (-x) + step) \div (2 * step)) * step)

\* heroScale of the render: 1 + progress * (SCROLL_SCALE_MAX - 1) on a screen
\* at least 768 px wide without reduced motion; scrollPx and vh in px, the
\* section at the top of the page
HeroScale(scrollPx, vh) ==
  LET adjustedScroll == Max(0, scrollPx - 0)
      growPhaseEnd10 == vh * GROW_PHASE_VH_MULTIPLIER
      progress == IF adjustedScroll * 10 >= growPhaseEnd10 THEN ScaleUnit
                  ELSE MulFrac(adjustedScroll * 10, ScaleUnit, growPhaseEnd10)
  IN  ScaleUnit + MulFrac(progress, SCROLL_SCALE_MAX - 100, 100)

\* x of image i in the loop of tick: basePositions[i] - offset wrapped into
\* [0, totalWidth), moved left by totalWidth beyond wrapThreshold
ItemX(layout, i, offset) ==
  LET wrapThreshold == layout.totalWidth - layout.maxScaledWidth - WrapMargin * Vw
      x == WrapOffset(layout.basePositions[i + 1] - offset, layout.totalWidth)
  IN  IF x > wrapThreshold THEN x - layout.totalWidth ELSE x

\* what tick writes to the style of the selected image (isSelected): left,
\* top and the scale of transform.  The inner container spans the window
\* (containerRectRef = {left: 0, width: innerWidth}), so centerPct = centerVw
SelectedStyle(layout, selIdx, offset, stripEased, anim, animating, heroScale, style) ==
  LET x == ItemX(layout, selIdx, offset)
      centerVw == x + (layout.scaledWidths[selIdx + 1] \div 2)
      animStartDs == IF anim.startDepthScale = 0 THEN ScaleUnit
                     ELSE anim.startDepthScale
      animStartTop == anim.startTop
  IN  [left |-> IF ~animating THEN 5000
                ELSE IF centerVw >= 0 THEN MulFrac(centerVw, 100, Vw)
                ELSE -MulFrac(-centerVw, 100, Vw),
       top |-> IF stripEased # -1
               THEN animStartTop * 100
                      + MulFrac((50 - animStartTop) * 100, stripEased, 1000)
               ELSE IF animating THEN 5000
               ELSE style.top,
       scale |-> IF stripEased # -1
                 THEN ToFixed(animStartDs
                                + MulFrac(heroScale - animStartDs, stripEased, 1000),
                              ScaleUnit \div 10000)
                 ELSE heroScale]

\* a drift that leaves the offset where it is
DriftOffsetFrozen(offset, mx, dt, totalWidth) == offset

\* the drift branch without the wrap below 0
DriftOffsetNoLowerWrap(offset, mx, dt, totalWidth) ==
  LET speed == MARQUEE_BASE_SPEED * 1000 + mx * MARQUEE_MOUSE_SPEED
      moved == offset + MulFrac(MulFrac(speed, dt * 100, FrameInterval), Vw, 1000000)
  IN  IF moved >= totalWidth THEN moved - totalWidth ELSE moved

\* the drift branch of tick
DriftOffset(offset, mx, dt, totalWidth) ==
  LET speed == MARQUEE_BASE_SPEED * 1000 + mx * MARQUEE_MOUSE_SPEED
      \* speed is in 1/1000000 vw here; dt / 16.67 = dt * 100 / 1667
      moved == offset + MulFrac(MulFrac(speed, dt * 100, FrameInterval), Vw, 1000000)
  IN  IF moved >= totalWidth THEN moved - totalWidth
      ELSE IF moved < 0 THEN moved + totalWidth
      ELSE moved

\* tick with "else if" written as a second "if" on offsetAnimRef.current:
\* the tick that completes an animation drifts as well
TickOffsetDriftAfterShift(anim, offset, timestamp, dt, scrollPaused, transitioning, mx, totalWidth) ==
  IF anim.active
  THEN LET startTime == IF anim.startTime = -1 THEN timestamp ELSE anim.startTime
           done == timestamp - startTime >= anim.duration
           shifted == ShiftOffset(anim, startTime, timestamp, totalWidth)
       IN  IF done /\ ~scrollPaused /\ ~transitioning
           THEN [offset |-> DriftOffset(shifted, mx, dt, totalWidth),
                 anim |-> NoAnim, by |-> {"shift", "drift"}]
           ELSE [offset |-> shifted,
                 anim |-> IF done THEN NoAnim
                          ELSE [anim EXCEPT !.startTime = startTime],
                 by |-> {"shift"}]
  ELSE IF ~scrollPaused /\ ~transitioning
  THEN [offset |-> DriftOffset(offset, mx, dt, totalWidth), anim |-> anim,
        by |-> {"drift"}]
  ELSE [offset |-> offset, anim |-> anim, by |-> {}]

\* tick that never discards the animation
TickOffsetKeepsAnim(anim, offset, timestamp, dt, scrollPaused, transitioning, mx, totalWidth) ==
  IF anim.active
  THEN LET startTime == IF anim.startTime = -1 THEN timestamp ELSE anim.startTime
       IN  [offset |-> ShiftOffset(anim, startTime, timestamp, totalWidth),
            anim |-> [anim EXCEPT !.startTime = startTime],
            by |-> {"shift"}]
  ELSE IF ~scrollPaused /\ ~transitioning
  THEN [offset |-> DriftOffset(offset, mx, dt, totalWidth), anim |-> anim,
        by |-> {"drift"}]
  ELSE [offset |-> offset, anim |-> anim, by |-> {}]

\* lines 399-427 of tick: what becomes of the offset and of the animation.
\* `by` names what moved the offset
TickOffset(anim, offset, timestamp, dt, scrollPaused, transitioning, mx, totalWidth) ==
  IF anim.active
  THEN LET startTime == IF anim.startTime = -1 THEN timestamp ELSE anim.startTime
           done == timestamp - startTime >= anim.duration
       IN  [offset |-> ShiftOffset(anim, startTime, timestamp, totalWidth),
            anim |-> IF done THEN NoAnim ELSE [anim EXCEPT !.startTime = startTime],
            by |-> {"shift"}]
  ELSE IF ~scrollPaused /\ ~transitioning
  THEN [offset |-> DriftOffset(offset, mx, dt, totalWidth), anim |-> anim,
        by |-> {"drift"}]
  ELSE [offset |-> offset, anim |-> anim, by |-> {}]

\* const tick = (timestamp) => { ... }, run `gap` ms after the last frame;
\* sectionTopRef.current is 0 (the section is the first of the page).
\* lastArg keeps the offset the tick started from and whether the tick was
\* free to drift (page not scrolled, no transition)
Tick(gap) ==
  LET timestamp == now + gap
      last == IF lastTime = 0 THEN timestamp ELSE lastTime
      dt == Min(timestamp - last, MaxFrameGap)
      adjusted == Max(0, scrollProgress - 0)
      r == TickOffset(offsetAnim, marqueeOffset, timestamp, dt, adjusted > 0,
                      isTransitioning, mouseX, marqueeLayout.totalWidth)
      t == IF offsetAnim.active
           THEN ShiftT(offsetAnim,
                       IF offsetAnim.startTime = -1 THEN timestamp
                       ELSE offsetAnim.startTime,
                       timestamp)
           ELSE -1
      stripEased == IF t = -1 THEN -1 ELSE easeOutCubic(t)
  IN  /\ now' = timestamp
      /\ stripT' = t
      /\ heroStyle' = SelectedStyle(marqueeLayout, selectedIndex, r.offset,
                                    stripEased, offsetAnim, isTransitioning,
                                    HeroScale(scrollProgress, innerHeight \div Scale),
                                    heroStyle)
      /\ lastTime' = timestamp
      /\ marqueeOffset' = r.offset
      /\ offsetAnim' = r.anim
      /\ applied' = r.by
      /\ lastOp' = "tick"
      /\ lastArg' = <<marqueeOffset, ~(adjusted > 0) /\ ~isTransitioning>>
      /\ UNCHANGED <<selectedIndex, prevIndex, isTransitioning, timerAt,
                     mouseX, scrollProgress, isGrown, selectedAt>>

\* startDepthScale: depthScalesRef.current[index], the value computeDepthScale
\* gave the image in the last tick.  computeDepthScale raises to the power
\* 1.9; its values range from DEPTH_SCALE_EDGE to DEPTH_SCALE_CENTER and the
\* model draws one of the two ends
StartDepthScales == {DEPTH_SCALE_EDGE * (ScaleUnit \div 100),
                     DEPTH_SCALE_CENTER * (ScaleUnit \div 100)}

\* handleSelect without its early return
SameSelectionNever(index, selected) == FALSE

\* if (index === current) return
SameSelection(index, selected) == index = selected

\* a select that leaves a pending timer as it is
KeepTimer(pending, time) ==
  IF pending # -1 THEN pending ELSE time + TRANSITION_DURATION_MS

\* if (prevTimeoutRef.current) clearTimeout(prevTimeoutRef.current);
\* prevTimeoutRef.current = setTimeout(..., TRANSITION_DURATION_MS): the
\* time at which the one timer is due
RestartTimer(pending, time) == time + TRANSITION_DURATION_MS

\* const handleSelect = useCallback((index) => { ... })
HandleSelect(index) ==
  /\ lastOp' = "select"
  /\ lastArg' = <<index, selectedIndex>>
  /\ IF SameSelection(index, selectedIndex)
     THEN UNCHANGED <<marqueeOffset, selectedIndex, prevIndex, isTransitioning,
                      offsetAnim, timerAt, heroStyle, selectedAt>>
     ELSE LET totalWidth == marqueeLayout.totalWidth
              targetOffset ==
                WrapOffset(marqueeLayout.basePositions[index + 1]
                             + (marqueeLayout.scaledWidths[index + 1] \div 2)
                             - ViewportCentre * Vw,
                           totalWidth)
          IN  /\ selectedIndex' = index
              /\ prevIndex' = selectedIndex
              /\ isTransitioning' = TRUE
              /\ \E ds \in StartDepthScales :
                   offsetAnim' =
                     [active |-> TRUE, startOffset |-> marqueeOffset,
                      delta |-> shortestWrappingDelta(marqueeOffset, targetOffset,
                                                      totalWidth),
                      startTime |-> -1, duration |-> STRIP_SHIFT_MS,
                      startDepthScale |-> ds,
                      startTop |-> marqueeLayout.topValues[index + 1]]
              \* clearTimeout(prevTimeoutRef.current); setTimeout(...)
              /\ timerAt' = RestartTimer(timerAt, now)
              /\ selectedAt' = now
              \* the render of the new selection: top '50%', left '50%',
              \* scale(heroScale)
              /\ heroStyle' = [left |-> 5000, top |-> 5000,
                               scale |-> HeroScale(scrollProgress,
                                                   innerHeight \div Scale)]
              /\ UNCHANGED marqueeOffset
  /\ UNCHANGED <<mouseX, scrollProgress, lastTime, now, applied, stripT,
                 isGrown>>

\* the callback of setTimeout(..., TRANSITION_DURATION_MS) in handleSelect
TransitionTimeout ==
  /\ timerAt # -1
  /\ now >= timerAt
  /\ prevIndex' = -1
  /\ isTransitioning' = FALSE
  /\ timerAt' = -1
  /\ UNCHANGED <<lastOp, lastArg>>
  /\ UNCHANGED <<marqueeOffset, selectedIndex, offsetAnim, mouseX,
                 scrollProgress, lastTime, now, applied, heroStyle, stripT,
                 isGrown, selectedAt>>

\* const handleMouseMove = (e) => { ... }: mouseXRef, from clientX in 0..innerWidth
HandleMouseMove(clientX, innerWidth) ==
  /\ mouseX' = MulFrac(clientX, 2000, innerWidth) - 1000
  /\ UNCHANGED <<lastOp, lastArg>>
  /\ UNCHANGED <<marqueeOffset, selectedIndex, prevIndex, isTransitioning,
                 offsetAnim, timerAt, scrollProgress, lastTime, now, applied,
                 heroStyle, stripT, isGrown, selectedAt>>

\* the scroll listener of FloatingGalleryHero: scrollProgressRef.current = scrollY
HeroScrollListener(y) ==
  /\ scrollProgress' = y
  \* isGrownRef.current = adjusted >= window.innerHeight * GROW_PHASE_VH_MULTIPLIER
  /\ isGrown' = (Max(0, y - 0) * 10
                  >= (innerHeight \div Scale) * GROW_PHASE_VH_MULTIPLIER)
  \* the render after setScrollProgress writes the transform when it changed
  /\ LET vh == innerHeight \div Scale
     IN  heroStyle' = IF HeroScale(y, vh) # HeroScale(scrollProgress, vh)
                      THEN [heroStyle EXCEPT !.scale = HeroScale(y, vh)]
                      ELSE heroStyle
  /\ UNCHANGED <<lastOp, lastArg>>
  /\ UNCHANGED <<marqueeOffset, selectedIndex, prevIndex, isTransitioning,
                 offsetAnim, timerAt, mouseX, lastTime, now, applied, stripT,
                 selectedAt>>

\* const handleHeroClick = useCallback(() => { ... }): the detail page of
\* the selected image once grown, a smooth scroll to the end of the grow
\* phase before
HandleHeroClick ==
  /\ IF isGrown
     THEN /\ navigated' = selectedIndex
          /\ lastOp' = "heroClick"
          /\ lastArg' = <<selectedIndex, TRUE>>
          /\ UNCHANGED scrollVars
     ELSE /\ ScrollTo(MulFrac(innerHeight, GROW_PHASE_VH_MULTIPLIER, 10), FALSE)
          /\ UNCHANGED navigated
  /\ UNCHANGED <<marqueeOffset, selectedIndex, prevIndex, isTransitioning,
                 offsetAnim, timerAt, mouseX, scrollProgress, lastTime, now,
                 applied, heroStyle, stripT, isGrown, selectedAt>>

\* an activation that selects whatever the item is
ActivateAlwaysSelects(i) ==
  /\ activated' = <<i, selectedIndex, isGrown>>
  /\ HandleSelect(i)
  /\ nSelects' = nSelects + 1
  /\ UNCHANGED <<scrollVars, navigated>>

\* onClick and onKeyDown (Enter, Space) of image i:
\* isSelected ? handleHeroClick() : handleSelect(i)
Activate(i) ==
  /\ activated' = <<i, selectedIndex, isGrown>>
  /\ IF i = selectedIndex
     THEN HandleHeroClick /\ UNCHANGED nSelects
     ELSE /\ HandleSelect(i)
          /\ nSelects' = nSelects + 1
          /\ UNCHANGED <<scrollVars, navigated>>

\* the refs and the state of FloatingGalleryHero once its effects have run
InitMarquee ==
  /\ marqueeOffset = marqueeLayout.initialOffset
  /\ selectedIndex = findCenterImageIndex(DESKTOP_HERO_IMAGES)
  /\ prevIndex = -1
  /\ isTransitioning = FALSE
  /\ offsetAnim = NoAnim
  /\ timerAt = -1
  /\ mouseX = 0
  /\ scrollProgress = 0
  /\ lastTime = 0
  /\ now = 0
  /\ applied = {}
  /\ nTicks = 0
  /\ nSelects = 0
  /\ heroStyle = [left |-> 5000, top |-> 5000, scale |-> ScaleUnit]
  /\ stripT = -1
  /\ isGrown = FALSE
  /\ navigated = -1
  /\ activated = <<>>
  /\ selectedAt = -1

\* no input drawn for shortestWrappingDelta
InitSwIdle ==
  /\ swCurrent = 0
  /\ swTarget = 0
  /\ swTotal = 1
  /\ swDelta = 0
  /\ swDone = FALSE

\* no layout is being computed apart from the one of the component
InitLayoutIdle ==
  /\ layoutImages = <<>>
  /\ layoutOut = <<>>
  /\ layoutPos = <<>>

\* no HeroSection is mounted
InitHeroIdle ==
  /\ hsStage = "none"
  /\ hsWidth = 0
  /\ hsVh = 0
  /\ hsReduced = FALSE
  /\ hsScrollProgress = 0
  /\ hsMousePosition = <<0, 0>>
  /\ hsTransform = [scale |-> 0, translateY |-> 0, parallaxX |-> 0,
                    parallaxY |-> 0]
  /\ hsRaf = FALSE
  /\ hsDrawn = -1

\* no staggered text is mounted
InitTextIdle ==
  /\ stStage = "none"
  /\ stReduced = FALSE
  /\ stStaticWords = 0
  /\ stWords = <<>>
  /\ stCenter = 0
  /\ stRaf = FALSE
  /\ stFrames = 0

\* no component is being torn down
NoLifecycle == [unmounted |-> {}, listeners |-> {}, frames |-> {}, late |-> {}]
InitLifecycleIdle == lifecycle = NoLifecycle

InitSideIdle ==
  /\ InitSwIdle
  /\ InitLayoutIdle
  /\ InitHeroIdle
  /\ InitTextIdle
  /\ InitLifecycleIdle

-----------------------------------------------------------------------------
(* The general scroll model: any interleaving of at most MaxInputs         *)
(* operations with the frames of the loop.                                 *)

\* <<content.scrollHeight, window.innerHeight>> in px: a tall page, a page
\* of the size of the spec's scenario, and content shorter than the viewport
Geometries == {<<1400, 500>>, <<3000, 900>>, <<300, 500>>}

WheelDeltas == {Px(-120), Px(120)}
KeyPresses == (ScrollKeys \X {FALSE}) \cup ({"PageDown", " "} \X {TRUE})
                \cup {<<"a", FALSE>>}
TouchYs == {Px(100), Px(400)}
ScrollPositions == {Px(-50), Px(850), Px(5000)}
\* <<top inside the content, height>> in px
Elements == {<<1200, 200>>}
Blocks == {"start", "center", "end"}
Offsets == {0, Px(40)}
EaseValues == {50}

InitScrollWith(geoms, eases, ls) ==
  /\ \E g \in geoms : contentHeight = Px(g[1]) /\ innerHeight = Px(g[2])
  /\ ease \in eases
  /\ current = 0
  /\ target = 0
  /\ isScrolling = FALSE
  /\ rafPending = FALSE
  /\ transformY = 0
  /\ scrollY = 0
  /\ touchStart = 0
  /\ scrollListeners = ls
  /\ delivered = NoCalls
  /\ threw = FALSE
  /\ lastOp = "init"
  /\ lastArg = <<>>
  /\ nInputs = 0
  /\ pressed = 0

Init ==
  /\ InitScrollWith(Geometries, EaseValues, <<"a">>)
  /\ InitMarquee
  /\ InitSideIdle

\* one operation of the run
Op(A) ==
  /\ nInputs < MaxInputs
  /\ A
  /\ nInputs' = nInputs + 1
  /\ pressed' = -1
  /\ UNCHANGED <<marqueeVars, sideVars>>

Frame == UpdateScroll /\ UNCHANGED <<nInputs, pressed, marqueeVars, sideVars>>

Next ==
  \/ \E d \in WheelDeltas : Op(HandleWheel(d))
  \/ \E k \in KeyPresses : Op(HandleKeyDown(k[1], k[2]))
  \/ \E y \in TouchYs : Op(HandleTouchStart(y))
  \/ \E y \in TouchYs : Op(HandleTouchMove(y))
  \/ \E p \in ScrollPositions, i \in BOOLEAN : Op(ScrollTo(p, i))
  \/ \E e \in Elements, b \in Blocks, o \in Offsets, i \in BOOLEAN :
       Op(ScrollToElement(Px(e[1]), Px(e[2]), b, o, i))
  \/ \E g \in Geometries : Op(HandleResize(Px(g[1]), Px(g[2])))
  \/ \E l \in ListenerIds : Op(AddScrollListener(l))
  \/ \E l \in ListenerIds : Op(Unsubscribe(l))
  \/ Frame

Spec == Init /\ [][Next]_vars

-----------------------------------------------------------------------------
(* Convergence model: from rest, an optional instant jump, one smooth      *)
(* scrollTo and then frames only.  The browser runs every queued animation *)
(* frame callback, hence the weak fairness of Frame.                       *)

ConvergeEases == {1, DefaultEase, 50, 99}

InitConverge ==
  /\ InitScrollWith(Geometries, ConvergeEases, <<"a">>)
  /\ InitMarquee
  /\ InitSideIdle

ConvergeJump(p) ==
  /\ nInputs = 0
  /\ ScrollTo(p, TRUE)
  /\ nInputs' = 1
  /\ pressed' = -1
  /\ UNCHANGED <<marqueeVars, sideVars>>

ConvergeScroll(p) ==
  /\ nInputs \in {0, 1}
  /\ ScrollTo(p, FALSE)
  /\ nInputs' = 2
  /\ pressed' = -1
  /\ UNCHANGED <<marqueeVars, sideVars>>

NextConverge ==
  \/ \E p \in ScrollPositions : ConvergeJump(p)
  \/ \E p \in ScrollPositions : ConvergeScroll(p)
  \/ Frame

SpecConverge == InitConverge /\ [][NextConverge]_vars /\ WF_vars(Frame)

-----------------------------------------------------------------------------
(* Paging model: from rest at 0, PageDown presses and frames only.         *)

\* PageDown presses per run
MaxPresses == 3

InitPaging ==
  /\ InitScrollWith(Geometries, EaseValues, <<"a">>)
  /\ InitMarquee
  /\ InitSideIdle

PressPageDown ==
  /\ pressed < MaxPresses
  /\ HandleKeyDown("PageDown", FALSE)
  /\ pressed' = pressed + 1
  /\ UNCHANGED <<nInputs, marqueeVars, sideVars>>

NextPaging == PressPageDown \/ Frame

SpecPaging == InitPaging /\ [][NextPaging]_vars

-----------------------------------------------------------------------------
(* Marquee model: ticks at any frame gaps, selections, the transition      *)
(* timer, pointer moves and page scroll notifications.  The strip has      *)
(* drifted for an arbitrary time before the run starts, so the run starts  *)
(* at the initial offset or next to the wrap point.                        *)

\* ticks per run
MaxTicks == 3
\* select calls per run
MaxSelects == 2

\* ms between two frames: a regular frame, a slow one, a tab left hidden
FrameGaps == {17, 400, 3600}
SelectChoices == {2, findCenterImageIndex(DESKTOP_HERO_IMAGES)}
\* <<e.clientX, window.innerWidth>>: the pointer at the left and at the
\* right edge of a window 1000 px wide
Pointers == {<<0, 1000>>, <<1000, 1000>>}
\* scrollY told to the listener of the hero, in px
HeroScrolls == {0, 500}
StartOffsets == {marqueeLayout.initialOffset, 0, marqueeLayout.totalWidth - 10}

InitMarqueeRun ==
  /\ InitScrollWith({<<3000, 900>>}, {DefaultEase}, <<"a">>)
  /\ marqueeOffset \in StartOffsets
  /\ selectedIndex = findCenterImageIndex(DESKTOP_HERO_IMAGES)
  /\ prevIndex = -1
  /\ isTransitioning = FALSE
  /\ offsetAnim = NoAnim
  /\ timerAt = -1
  /\ mouseX = 0
  /\ scrollProgress = 0
  /\ lastTime = 0
  /\ now = 0
  /\ applied = {}
  /\ nTicks = 0
  /\ nSelects = 0
  /\ heroStyle = [left |-> 5000, top |-> 5000, scale |-> ScaleUnit]
  /\ stripT = -1
  /\ isGrown = FALSE
  /\ navigated = -1
  /\ activated = <<>>
  /\ selectedAt = -1
  /\ InitSideIdle

MarqueeTick(gap) ==
  /\ nTicks < MaxTicks
  /\ Tick(gap)
  /\ nTicks' = nTicks + 1
  /\ UNCHANGED <<nSelects, nInputs, pressed, scrollVars, sideVars, navigated,
                 activated>>

MarqueeSelect(index) ==
  /\ nSelects < MaxSelects
  /\ HandleSelect(index)
  /\ nSelects' = nSelects + 1
  /\ UNCHANGED <<nTicks, nInputs, pressed, scrollVars, sideVars, navigated,
                 activated>>

MarqueeOther(A) ==
  /\ A
  /\ UNCHANGED <<nTicks, nSelects, nInputs, pressed, scrollVars, sideVars,
                 navigated, activated>>

NextMarquee ==
  \/ \E gap \in FrameGaps : MarqueeTick(gap)
  \/ \E index \in SelectChoices : MarqueeSelect(index)
  \/ MarqueeOther(TransitionTimeout)
  \/ \E m \in Pointers : MarqueeOther(HandleMouseMove(m[1], m[2]))
  \/ \E y \in HeroScrolls : MarqueeOther(HeroScrollListener(y))

SpecMarquee == InitMarqueeRun /\ [][NextMarquee]_vars

(* Activating the images: clicks and key presses on the items, between
   frames and scroll notifications, until a detail page is asked for *)

\* the scroll positions the hero is told of, in px: the last is past the
\* grow phase
ClickScrolls == {0, 500, 1000}

ClickActivate(i) ==
  /\ navigated = -1
  /\ nInputs < MaxInputs
  /\ Activate(i)
  /\ nInputs' = nInputs + 1
  /\ UNCHANGED <<nTicks, pressed, sideVars>>

ClickOther(A) ==
  /\ navigated = -1
  /\ A

NextClick ==
  \/ \E i \in SelectChoices : ClickActivate(i)
  \/ \E gap \in FrameGaps : ClickOther(MarqueeTick(gap))
  \/ ClickOther(MarqueeOther(TransitionTimeout))
  \/ \E y \in ClickScrolls : ClickOther(MarqueeOther(HeroScrollListener(y)))

SpecClick == InitMarqueeRun /\ [][NextClick]_vars

-----------------------------------------------------------------------------
(* shortestWrappingDelta applied to drawn inputs *)

\* current and target are drawn from -MaxPoint..MaxPoint
MaxPoint == 15
\* totalWidth is drawn from 1..MaxTotal
MaxTotal == 7

\* the inputs of the spec's scenario with its neighbours beyond the strip
SwPoints == (-MaxPoint..MaxPoint) \cup {25, 105, -75, -95}
SwTotals == (1..MaxTotal) \cup {100}

InitSw ==
  /\ InitScrollWith({<<3000, 900>>}, {DefaultEase}, <<"a">>)
  /\ InitMarquee
  /\ swCurrent \in SwPoints
  /\ swTarget \in SwPoints
  /\ swTotal \in SwTotals
  /\ swDelta = 0
  /\ swDone = FALSE
  /\ InitLayoutIdle
  /\ InitHeroIdle
  /\ InitTextIdle
  /\ InitLifecycleIdle

ApplySw ==
  /\ ~swDone
  /\ swDelta' = shortestWrappingDelta(swCurrent, swTarget, swTotal)
  /\ swDone' = TRUE
  /\ UNCHANGED <<swCurrent, swTarget, swTotal, scrollVars, runVars, marqueeVars,
                 layoutVars, heroVars, textVars, mountVars>>

SpecSw == InitSw /\ [][ApplySw]_vars

(* The marquee layout and the per-frame positions as functions of their
   inputs: an image list is drawn, its layout is computed as the useMemo of
   the component computes it, and the position of an item is computed as
   tick computes it, from an offset and from that offset plus totalWidth *)

\* the longest drawn image list
MaxImages == 3

\* images <<width, left, top>> the lists are drawn from
ImageChoices == {<<5, 50, 50>>, <<30, 10, 20>>, <<12, 70, 45>>}

RECURSIVE ListsUpTo(_)
ListsUpTo(n) ==
  IF n = 0 THEN {<<>>}
  ELSE LET shorter == ListsUpTo(n - 1)
       IN  shorter \cup {Append(l, img) : l \in shorter, img \in ImageChoices}

ImageLists == (ListsUpTo(MaxImages) \ {<<>>}) \cup {DESKTOP_HERO_IMAGES}

\* offsets the positions are computed from, in 1/Vw vw: below 0, 0, inside
\* the strip, and past its end
ProbeOffsets(layout) ==
  {-layout.totalWidth - 7, -1, 0, 1, layout.basePositions[Len(layout.basePositions)],
   layout.maxScaledWidth + WrapMargin * Vw,
   layout.maxScaledWidth + WrapMargin * Vw + 1,
   layout.totalWidth - 1, layout.totalWidth, 2 * layout.totalWidth + 3}

InitLayout ==
  /\ InitScrollWith({<<3000, 900>>}, {DefaultEase}, <<"a">>)
  /\ InitMarquee
  /\ InitSwIdle
  /\ InitLifecycleIdle
  /\ InitHeroIdle
  /\ InitTextIdle
  /\ layoutImages \in ImageLists
  /\ layoutOut = <<>>
  /\ layoutPos = <<>>

\* const marqueeLayout = useMemo(() => { ... }, [])
ComputeLayout ==
  /\ layoutOut = <<>>
  /\ layoutOut' = LayoutOf(layoutImages)
  /\ UNCHANGED <<layoutImages, layoutPos, scrollVars, runVars, marqueeVars,
                 swVars, heroVars, textVars, mountVars>>

\* the x of image i in one frame, at the offset o and at o + totalWidth
ComputePosition(i, o) ==
  /\ layoutOut # <<>>
  /\ layoutPos' = <<i, o, ItemX(layoutOut, i, o),
                    ItemX(layoutOut, i, o + layoutOut.totalWidth)>>
  /\ UNCHANGED <<layoutImages, layoutOut, scrollVars, runVars, marqueeVars,
                 swVars, heroVars, textVars, mountVars>>

NextLayout ==
  \/ ComputeLayout
  \/ /\ layoutOut # <<>>
     /\ \E i \in 0..(Len(layoutImages) - 1) :
          \E o \in ProbeOffsets(layoutOut) : ComputePosition(i, o)

SpecLayout == InitLayout /\ [][NextLayout]_vars

-----------------------------------------------------------------------------
(* HeroSection of IntroSection.jsx: the pinned, growing video.  Scroll
   positions are in 1/HsPx px, so that 1.1 and 0.05 viewport heights are
   whole; progress, scale and translateY (in svh) are in 1/HsUnit; the
   parallax offsets are in 1/100 px *)

HsPx == 20
HsUnit == ScaleUnit \div 10

\* const GROW_PHASE_VH_MULTIPLIER = 1.1, HOLD_PHASE_VH_MULTIPLIER = 0.05:
\* growPhaseEnd, holdDuration and holdPhaseEnd in 1/HsPx px
HsGrowPhaseEnd(vh) == (vh * HsPx * GROW_PHASE_VH_MULTIPLIER) \div 10
HOLD_PHASE_VH_PERCENT == 5
HsHoldDuration(vh) == (vh * HsPx * HOLD_PHASE_VH_PERCENT) \div 100
HsHoldPhaseEnd(vh) == HsGrowPhaseEnd(vh) + HsHoldDuration(vh)

\* the breakpoints and the scales of the video
SmallScreen == 768
MediumScreen == 1024
MediumInitialScale == 55
LargeInitialScale == 46
MaxScalePercent == 105
StartTranslateY == -106
MaxOffsetLeftX == 135
MaxOffsetRightX == 230
MaxOffsetY == 80
ParallaxFade == 12

\* { scale: 1, translateY: 0, parallaxX: 0, parallaxY: 0 }
NeutralTransform ==
  [scale |-> HsUnit, translateY |-> 0, parallaxX |-> 0, parallaxY |-> 0]

\* const initialScale = screenWidth < 1024 ? 0.55 : 0.46
HsInitialScale(width) ==
  (IF width < MediumScreen THEN MediumInitialScale ELSE LargeInitialScale)
    * (HsUnit \div 100)

\* the initial value of the state transform
InitialTransform(width) ==
  IF width < SmallScreen THEN NeutralTransform
  ELSE [scale |-> HsInitialScale(width), translateY |-> StartTranslateY * HsUnit,
        parallaxX |-> 0, parallaxY |-> 0]

\* a growing phase whose translateY ends one svh short of 0
HsGrowingShort(scroll, vh, width) ==
  LET progress == MulFrac(scroll, HsUnit, HsGrowPhaseEnd(vh))
  IN  [scale |-> HsInitialScale(width)
                   + MulFrac(progress,
                             MaxScalePercent * (HsUnit \div 100)
                               - HsInitialScale(width), HsUnit),
       translateY |-> StartTranslateY * HsUnit + progress * (-StartTranslateY - 1)]

\* PHASE 1: GROWING
HsGrowing(scroll, vh, width) ==
  LET progress == MulFrac(scroll, HsUnit, HsGrowPhaseEnd(vh))
      scaleGrowth == MaxScalePercent * (HsUnit \div 100) - HsInitialScale(width)
  IN  [scale |-> HsInitialScale(width) + MulFrac(progress, scaleGrowth, HsUnit),
       translateY |-> StartTranslateY * HsUnit + progress * (-StartTranslateY)]

\* a hold phase that compensates half of the extra scroll
HsHoldHalf(scroll, vh) ==
  [scale |-> MaxScalePercent * (HsUnit \div 100),
   translateY |-> MulFrac(scroll - HsGrowPhaseEnd(vh),
                          (100 * HsUnit) \div HsPx, 2 * vh)]

\* PHASE 2: HOLD: (extraScroll / window.innerHeight) * 100
HsHold(scroll, vh) ==
  [scale |-> MaxScalePercent * (HsUnit \div 100),
   translateY |-> MulFrac(scroll - HsGrowPhaseEnd(vh),
                          (100 * HsUnit) \div HsPx, vh)]

\* PHASE 3: RELEASE: (holdDuration / window.innerHeight) * 100
HsRelease(vh) ==
  [scale |-> MaxScalePercent * (HsUnit \div 100),
   translateY |-> MulFrac(HsHoldDuration(vh), (100 * HsUnit) \div HsPx, vh)]

\* const updateTransform = () => { ... }: the value it sets
updateTransform(width, vh, scroll, mouse) ==
  IF width < SmallScreen THEN NeutralTransform
  ELSE
    LET phase == IF scroll <= HsGrowPhaseEnd(vh) THEN HsGrowing(scroll, vh, width)
                 ELSE IF scroll <= HsHoldPhaseEnd(vh) THEN HsHold(scroll, vh)
                 ELSE HsRelease(vh)
        progress == Min(MulFrac(scroll, HsUnit, HsGrowPhaseEnd(vh)), HsUnit)
        parallaxStrength == Max(0, HsUnit - MulFrac(progress, ParallaxFade, 10))
        maxOffsetX == IF mouse[1] > 0 THEN MaxOffsetRightX ELSE MaxOffsetLeftX
    IN  [scale |-> phase.scale,
         translateY |-> phase.translateY,
         parallaxX |-> MulFrac(MulFrac(mouse[1] * maxOffsetX, 1, 10),
                               parallaxStrength, HsUnit),
         parallaxY |-> MulFrac(MulFrac(mouse[2] * MaxOffsetY, 1, 10),
                               parallaxStrength, HsUnit)]

\* the effect on [scrollProgress, mousePosition, prefersReducedMotion]: its
\* cleanup has cancelled the frame requested before
TransformEffect ==
  IF hsReduced
  THEN /\ hsTransform' = NeutralTransform
       /\ hsRaf' = FALSE
       /\ UNCHANGED hsDrawn
  ELSE /\ hsRaf' = TRUE
       /\ UNCHANGED <<hsTransform, hsDrawn>>

\* the effects of the first render run
HsMount ==
  /\ hsStage = "rendered"
  /\ hsStage' = "mounted"
  /\ TransformEffect
  /\ UNCHANGED <<hsWidth, hsVh, hsReduced, hsScrollProgress, hsMousePosition>>

\* addScrollListener((scrollY) => { setScrollProgress(scrollY) }): the same
\* value renders nothing anew
HsScrollListener(y) ==
  /\ hsStage = "mounted"
  /\ hsScrollProgress' = y
  /\ IF y = hsScrollProgress
     THEN UNCHANGED <<hsTransform, hsRaf, hsDrawn>>
     ELSE TransformEffect
  /\ UNCHANGED <<hsStage, hsWidth, hsVh, hsReduced, hsMousePosition>>

\* const handleMouseMove = (e) => { ... }: registered unless reduced motion
\* is preferred
HsHandleMouseMove(clientX, clientY) ==
  /\ hsStage = "mounted"
  /\ ~hsReduced
  /\ hsMousePosition' = <<MulFrac(2 * clientX - hsWidth, 1000, hsWidth),
                          MulFrac(2 * clientY - hsVh, 1000, hsVh)>>
  /\ TransformEffect
  /\ UNCHANGED <<hsStage, hsWidth, hsVh, hsReduced, hsScrollProgress>>

\* the requested frame runs updateTransform
HsFrame ==
  /\ hsStage = "mounted"
  /\ hsRaf
  /\ hsRaf' = FALSE
  /\ hsTransform' = updateTransform(hsWidth, hsVh, hsScrollProgress,
                                    hsMousePosition)
  /\ hsDrawn' = hsScrollProgress
  /\ UNCHANGED <<hsStage, hsWidth, hsVh, hsReduced, hsScrollProgress,
                 hsMousePosition>>

\* the viewports the section is rendered in
HeroWidths == {600, 800, 1200}
HeroHeights == {1, 500, 900}

\* scroll positions around the phases of a viewport, in 1/HsPx px
HeroScrollsOf(vh) ==
  {0, HsGrowPhaseEnd(vh) \div 2, HsGrowPhaseEnd(vh), HsGrowPhaseEnd(vh) + 1,
   HsGrowPhaseEnd(vh) + (HsHoldDuration(vh) \div 2), HsHoldPhaseEnd(vh),
   HsHoldPhaseEnd(vh) + 1, 2 * HsHoldPhaseEnd(vh)}

\* pointer positions as fractions of the viewport, in 1/4
HeroPointers == {<<0, 0>>, <<4, 1>>, <<2, 2>>}

\* the first render of HeroSection
InitHero ==
  /\ InitScrollWith({<<3000, 900>>}, {DefaultEase}, <<"a">>)
  /\ InitMarquee
  /\ InitSwIdle
  /\ InitLifecycleIdle
  /\ InitLayoutIdle
  /\ InitTextIdle
  /\ hsStage = "rendered"
  /\ hsWidth \in HeroWidths
  /\ hsVh \in HeroHeights
  /\ hsReduced \in BOOLEAN
  /\ hsScrollProgress = 0
  /\ hsMousePosition = <<0, 0>>
  /\ hsTransform = InitialTransform(hsWidth)
  /\ hsRaf = FALSE
  /\ hsDrawn = -1

HeroStep(A) ==
  /\ A
  /\ UNCHANGED <<scrollVars, runVars, marqueeVars, swVars, layoutVars,
                 textVars, mountVars>>

NextHero ==
  \/ HeroStep(HsMount)
  \/ \E y \in HeroScrollsOf(hsVh) : HeroStep(HsScrollListener(y))
  \/ \E m \in HeroPointers :
       HeroStep(HsHandleMouseMove((m[1] * hsWidth) \div 4, (m[2] * hsVh) \div 4))
  \/ HeroStep(HsFrame)

SpecHero == InitHero /\ [][NextHero]_vars

-----------------------------------------------------------------------------
(* useStaggeredText: the words of a text, some of them static, the others
   sliding to their place as the text crosses the window.  Offsets are in
   1/1000 em, progress, delays and the easing in 1/1000 *)

\* const BASE_TRANSFORMS = { 0: 0.3, 1: -0.9, ... }, in 1/1000 em
BASE_TRANSFORMS == <<300, -900, 1500, -2400, -300, 1900, -1300, 600>>

\* the defaults of the options: maxOffset = 1 (in tenths), the 2.4 it is
\* divided by (in tenths), animationSpeed = 0.15 and animationSmoothing =
\* 0.50 (in percent), delayRange = 0.3 (in 1/1000)
DefaultMaxOffset == 10
FullOffset == 24
AnimationSpeed == 15
AnimationSmoothing == 50
DelayRange == 300
WordTypes == 8

RECURSIVE Pow2(_)
Pow2(x) == IF x = 0 THEN 1 ELSE 2 * Pow2(x - 1)

\* 2^x modulo 100
RECURSIVE Pow2Mod100(_)
Pow2Mod100(x) == IF x = 0 THEN 1 ELSE (2 * Pow2Mod100(x - 1)) % 100

\* the bits of the significand of a double after the leading one
DoubleFraction == 52

\* the count taken in exact arithmetic
numStaticWordsExact(totalWords, staticWords) ==
  (totalWords * staticWords) \div 100

\* const numStaticWords = Math.floor(totalWords * (staticWords / 100)), for
\* staticWords in 0..100, as doubles compute it.  When totalWords *
\* staticWords is no multiple of 100 the product is at least 1/100 away from
\* an integer and the rounding cannot reach it.  Otherwise the exact product
\* is an integer k, and everything depends on staticWords / 100: with
\* staticWords / 100 in [2^-a, 2^(1-a)) its significand is
\* staticWords * 2^(a+52) / 100, rounded to the nearest integer, and r is
\* the remainder of that division (r is never 50).  Rounded up or exact, the
\* product is at least k.  Rounded down, the product is k - d with
\* d = totalWords * r / 100 * 2^-(a+52), which rounds to k only when d is at
\* most half the distance h from k to the double below it: h = 2^(e-53)
\* for 2^e < k < 2^(e+1) and 2^(e-54) for k = 2^e; otherwise it rounds to
\* a double below k and the floor is k - 1.  Outside 0..100 the model takes
\* multiples of 50 only: staticWords / 100 is then a multiple of 1/2, the
\* quotient and the product are exact and the floor (towards minus infinity,
\* as \div) is the exact one
numStaticWords(totalWords, staticWords) ==
  LET k == (totalWords * staticWords) \div 100
  IN  IF (totalWords * staticWords) % 100 # 0 \/ k = 0 \/ staticWords = 100
         \/ staticWords < 0 \/ staticWords > 100
      THEN k
      ELSE
        LET a == CHOOSE x \in 1..7 :
                   /\ Pow2(x) * staticWords >= 100
                   /\ Pow2(x - 1) * staticWords < 100
            r == (staticWords * Pow2Mod100(a + DoubleFraction)) % 100
            e == CHOOSE x \in 0..20 : Pow2(x) <= k /\ k < Pow2(x + 1)
            g == e + a - 1 - (IF k = Pow2(e) THEN 1 ELSE 0)
        IN  IF r = 0 \/ r > 50 THEN k
            ELSE IF totalWords * r * Pow2(Max(0, -g)) <= 100 * Pow2(Max(0, g))
                 THEN k
                 ELSE k - 1

\* the length of indices.slice(0, end) for an array of `length` elements: a
\* negative end counts from the end of the array, an end past the length
\* stops at the length
SliceLength(length, end) ==
  IF end < 0 THEN Max(length + end, 0) ELSE Min(end, length)

\* function applyEasing(progress, easingPower = 3.0): the branch of the
\* default power, progress^3 * (progress * (progress * 6 - 15) + 10)
applyEasing(progress) ==
  MulFrac(MulFrac(MulFrac(progress, progress, 1000), progress, 1000),
          MulFrac(progress, 6 * progress - 15000, 1000) + 10000, 1000)

\* (BASE_TRANSFORMS[type] || 0) * factor, factor = maxOffset / 2.4
OriginalOffset(type) == MulFrac(BASE_TRANSFORMS[type + 1], DefaultMaxOffset, FullOffset)

\* the initial offset without the test of reduced motion
InitialOffsetOfStaticOnly(isStatic, reduced, type) ==
  IF isStatic THEN 0 ELSE OriginalOffset(type)

\* const initialOffset = (isStatic || prefersReducedMotion) ? 0 : ...
InitialOffset(isStatic, reduced, type) ==
  IF isStatic \/ reduced THEN 0 ELSE OriginalOffset(type)

\* wordElements.forEach((wordEl) => { ... }) for one word.  startY is 0 and
\* endY the window height (animationStart 0, animationEnd 100), so
\* (startY - wordCenter) / range is the centre as a fraction of the height.
\* progressStatesRef starts a word at 0 and wordStatesRef at its original
\* offset, which is the offset it was rendered with
FrameOfWord(w, center) ==
  IF w.static THEN [w EXCEPT !.offset = 0]
  ELSE
    LET baseProgress == Max(0, Min(1000, center))
        targetProgress == Max(0, Min(1000, MulFrac(baseProgress - w.delay, 1000,
                                                     1000 - w.delay)))
        newProgress == w.progress
                         + MulFrac(targetProgress - w.progress, AnimationSpeed, 100)
        targetOffset == MulFrac(OriginalOffset(w.type),
                                1000 - applyEasing(newProgress), 1000)
    IN  [w EXCEPT !.progress = newProgress,
                  !.offset = w.offset + MulFrac(targetOffset - w.offset,
                                                 100 - AnimationSmoothing, 100)]

\* function updateAnimation() { ... }
updateAnimation ==
  /\ stStage = "mounted"
  /\ stRaf
  /\ stWords' = [i \in DOMAIN stWords |-> FrameOfWord(stWords[i], stCenter)]
  /\ stRaf' = TRUE
  /\ UNCHANGED <<stStage, stReduced, stStaticWords, stCenter>>

\* the page scrolls: the words are elsewhere in the window
TextScrolled(center) ==
  /\ stStage = "mounted"
  /\ stCenter' = center
  /\ UNCHANGED <<stStage, stReduced, stStaticWords, stWords, stRaf, stFrames>>

\* the frames of a run
MaxWordFrames == 2

\* the lengths of the texts, in words, and the values of staticWords
TextLengths == {1, 3, 50}
StaticPercents == {0, 50, 58, 100}

\* what the shuffle can leave in indices.slice(0, numStaticWords): every set
\* of that size for a short text, the first or the last words for a long one
StaticChoices(totalWords, count) ==
  IF totalWords <= 3
  THEN {S \in SUBSET (0..(totalWords - 1)) : Cardinality(S) = count}
  ELSE {0..(count - 1), (totalWords - count)..(totalWords - 1)}

\* what Math.random gives the words of a text: types and delays
WordSeeds == {0, 1}
TypeOfWord(i, seed) == (3 * i + seed) % WordTypes
DelayOfWord(i, seed) == (((i + seed) % 3) * DelayRange) \div 4

\* window positions of the words: above, inside and at the end of the zone
WordCenters == {-200, 500, 1000}

\* the state after the effect of useStaggeredText has run: the spans are
\* written, and a frame is requested unless reduced motion is preferred
InitTextWith(percents) ==
  /\ InitScrollWith({<<3000, 900>>}, {DefaultEase}, <<"a">>)
  /\ InitMarquee
  /\ InitSwIdle
  /\ InitLifecycleIdle
  /\ InitLayoutIdle
  /\ InitHeroIdle
  /\ stStage = "mounted"
  /\ stReduced \in BOOLEAN
  /\ stStaticWords \in percents
  /\ \E totalWords \in TextLengths, seed \in WordSeeds :
       \E staticIndices \in
            StaticChoices(totalWords,
                          SliceLength(totalWords,
                                      numStaticWords(totalWords, stStaticWords))) :
         stWords = [i \in 0..(totalWords - 1) |->
                      [static |-> i \in staticIndices,
                       type |-> TypeOfWord(i, seed),
                       delay |-> DelayOfWord(i, seed),
                       progress |-> 0,
                       offset |-> InitialOffset(i \in staticIndices, stReduced,
                                                TypeOfWord(i, seed))]]
  /\ stCenter = 1000
  /\ stRaf = ~stReduced
  /\ stFrames = 0

InitText == InitTextWith(StaticPercents)

TextStep(A) ==
  /\ A
  /\ UNCHANGED <<scrollVars, runVars, marqueeVars, swVars, layoutVars, heroVars,
                 mountVars>>

NextText ==
  \/ /\ stFrames < MaxWordFrames
     /\ stFrames' = stFrames + 1
     /\ TextStep(updateAnimation)
  \/ \E center \in WordCenters : TextStep(TextScrolled(center))

SpecText == InitText /\ [][NextText]_vars

\* values of staticWords outside 0..100
OutOfRangePercents == {-150, -50, 150, 250}

InitTextOutOfRange == InitTextWith(OutOfRangePercents)

SpecTextOutOfRange == InitTextOutOfRange /\ [][NextText]_vars

(* The container of the text leaving and re-entering the document while the
   hook stays mounted: stStage is then "detached", containerRef.current
   being null *)

\* React sets containerRef.current to null when the element is removed
ContainerRemoved ==
  /\ stStage = "mounted"
  /\ stStage' = "detached"
  /\ UNCHANGED <<stReduced, stStaticWords, stWords, stCenter, stRaf, stFrames>>

\* and to the element when it is rendered again
ContainerRestored ==
  /\ stStage = "detached"
  /\ stStage' = "mounted"
  /\ UNCHANGED <<stReduced, stStaticWords, stWords, stCenter, stRaf, stFrames>>

\* function updateAnimation() { const container = containerRef.current;
\* if (!container) return; ... }: the frame that finds no container
updateAnimationNoContainer ==
  /\ stStage = "detached"
  /\ stRaf
  /\ stRaf' = FALSE
  /\ UNCHANGED <<stStage, stReduced, stStaticWords, stWords, stCenter, stFrames>>

NextTextDetach ==
  \/ NextText
  \/ TextStep(ContainerRemoved)
  \/ TextStep(ContainerRestored)
  \/ TextStep(updateAnimationNoContainer)

SpecTextDetach == InitText /\ [][NextTextDetach]_vars

-----------------------------------------------------------------------------
(* Degenerate geometry: the hero transform and the word animation in a
   window of height 0, with animationStart = animationEnd, or with a word
   delay of 1.  A JavaScript number is kept here as a record: a finite value
   on the grids used above, NaN, or an infinity with its sign, so that a
   division by zero gives what the division of doubles gives *)

XNum(v) == [k |-> "num", v |-> v]
XNaN == [k |-> "nan", v |-> 0]
XInf(sign) == [k |-> "inf", v |-> sign]

\* a / b for finite a and b, in 1/unit: x / 0 is an infinity of the sign of
\* x, 0 / 0 is NaN (the zero denominators of these computations are +0)
XDiv(a, b, unit) ==
  IF b # 0 THEN XNum(MulFrac(a, unit, b))
  ELSE IF a = 0 THEN XNaN
  ELSE XInf(IF a > 0 THEN 1 ELSE -1)

\* Math.min(x, c) for a finite c: NaN if x is NaN
XMin(x, c) ==
  CASE x.k = "nan" -> XNaN
    [] x.k = "inf" -> IF x.v > 0 THEN XNum(c) ELSE x
    [] x.k = "num" -> XNum(Min(x.v, c))

\* Math.max(c, x) for a finite c: NaN if x is NaN
XMax(c, x) ==
  CASE x.k = "nan" -> XNaN
    [] x.k = "inf" -> IF x.v > 0 THEN x ELSE XNum(c)
    [] x.k = "num" -> XNum(Max(c, x.v))

\* an arithmetic expression of x, given as the function F: NaN if x is NaN (the expressions of
\* these computations are never applied to an infinity)
XApply(x, F) ==
  CASE x.k = "nan" -> XNaN
    [] x.k = "num" -> XNum(F[x.v])

\* current + (goal - current) * percent / 100
XLerp(cur, goal, percent) ==
  IF cur.k = "nan" \/ goal.k = "nan" THEN XNaN
  ELSE XNum(cur.v + MulFrac(goal.v - cur.v, percent, 100))

\* a transform of finite values
XTransform(t) ==
  [scale |-> XNum(t.scale), translateY |-> XNum(t.translateY),
   parallaxX |-> XNum(t.parallaxX), parallaxY |-> XNum(t.parallaxY)]

\* const updateTransform = () => { ... }: the value it sets, as doubles
\* give it
updateTransformIEEE(width, vh, scroll, mouse) ==
  IF width < SmallScreen THEN XTransform(NeutralTransform)
  ELSE
    LET growPhaseEnd == HsGrowPhaseEnd(vh)
        holdPhaseEnd == HsHoldPhaseEnd(vh)
        initialScale == HsInitialScale(width)
        scaleGrowth == MaxScalePercent * (HsUnit \div 100) - initialScale
        grown == XNum(MaxScalePercent * (HsUnit \div 100))
        growing == XDiv(scroll, growPhaseEnd, HsUnit)
        phase ==
          IF scroll <= growPhaseEnd
          THEN [scale |-> XApply(growing,
                                 [q \in Int |-> initialScale + MulFrac(q, scaleGrowth, HsUnit)]),
                translateY |-> XApply(growing,
                                      [q \in Int |-> StartTranslateY * HsUnit
                                                   + q * (-StartTranslateY)])]
          ELSE IF scroll <= holdPhaseEnd
          THEN [scale |-> grown,
                translateY |-> XDiv(scroll - growPhaseEnd, vh,
                                    (100 * HsUnit) \div HsPx)]
          ELSE [scale |-> grown,
                translateY |-> XDiv(HsHoldDuration(vh), vh,
                                    (100 * HsUnit) \div HsPx)]
        progress == XMin(XDiv(scroll, growPhaseEnd, HsUnit), HsUnit)
        parallaxStrength ==
          XMax(0, XApply(progress, [q \in Int |-> HsUnit - MulFrac(q, ParallaxFade, 10)]))
        maxOffsetX == IF mouse[1] > 0 THEN MaxOffsetRightX ELSE MaxOffsetLeftX
    IN  [scale |-> phase.scale,
         translateY |-> phase.translateY,
         parallaxX |-> XApply(parallaxStrength,
                              [q \in Int |-> MulFrac(MulFrac(mouse[1] * maxOffsetX, 1, 10),
                                                 q, HsUnit)]),
         parallaxY |-> XApply(parallaxStrength,
                              [q \in Int |-> MulFrac(MulFrac(mouse[2] * MaxOffsetY, 1, 10),
                                                 q, HsUnit)])]

\* the requested frame runs updateTransform
HsFrameIEEE ==
  /\ hsStage = "mounted"
  /\ hsRaf
  /\ hsRaf' = FALSE
  /\ hsTransform' = updateTransformIEEE(hsWidth, hsVh, hsScrollProgress,
                                        hsMousePosition)
  /\ hsDrawn' = hsScrollProgress
  /\ UNCHANGED <<hsStage, hsWidth, hsVh, hsReduced, hsScrollProgress,
                 hsMousePosition>>

\* wordElements.forEach((wordEl) => { ... }) for one word that is not
\* static, in a window of height windowHeight (px) with the word's centre
\* at wordCenter (px) and the zone from animationStart to animationEnd (in
\* percent of the height)
FrameOfWordIEEE(w, wordCenter, windowHeight, animationStart, animationEnd) ==
  LET startY == (windowHeight * animationStart) \div 100
      endY == (windowHeight * animationEnd) \div 100
      range == startY - endY
      baseProgress == XMax(0, XMin(XDiv(startY - wordCenter, range, 1000), 1000))
      delayed ==
        CASE baseProgress.k = "nan" -> XNaN
          [] baseProgress.k = "num" ->
               XDiv(baseProgress.v - w.delay, 1000 - w.delay, 1000)
      targetProgress == XMax(0, XMin(delayed, 1000))
      newProgress == XLerp(w.progress, targetProgress, AnimationSpeed)
      easedProgress == XApply(newProgress, [q \in Int |-> applyEasing(q)])
      targetOffset ==
        XApply(easedProgress,
               [q \in Int |-> MulFrac(OriginalOffset(w.type), 1000 - q, 1000)])
  IN  [w EXCEPT !.progress = newProgress,
                !.offset = XLerp(w.offset, targetOffset, 100 - AnimationSmoothing)]

\* function updateAnimation() { ... }; stCenter holds <<wordCenter,
\* windowHeight, animationStart, animationEnd>>
updateAnimationIEEE ==
  /\ stStage = "mounted"
  /\ stRaf
  /\ stFrames < MaxWordFrames
  /\ stFrames' = stFrames + 1
  /\ stWords' = [i \in DOMAIN stWords |->
                   FrameOfWordIEEE(stWords[i], stCenter[1], stCenter[2],
                                   stCenter[3], stCenter[4])]
  /\ stRaf' = TRUE
  /\ UNCHANGED <<stStage, stReduced, stStaticWords, stCenter>>

\* the page scrolls: the words are elsewhere in the window
TextScrolledTo(wordCenter) ==
  /\ stStage = "mounted"
  /\ stCenter' = [stCenter EXCEPT ![1] = wordCenter]
  /\ UNCHANGED <<stStage, stReduced, stStaticWords, stWords, stRaf, stFrames>>

\* window heights in px, zones <<animationStart, animationEnd>>, delays of
\* the second word in 1/1000, centres of the words in px
FlatHeights == {0, 900}
Zones == {<<0, 100>>, <<50, 50>>}
WordDelays == {250, 1000}
FlatCenters == {0, 450, 900}

\* HeroSection rendered and a text of two animated words mounted in the
\* same window
InitDegenerate ==
  /\ InitScrollWith({<<3000, 900>>}, {DefaultEase}, <<"a">>)
  /\ InitMarquee
  /\ InitSwIdle
  /\ InitLifecycleIdle
  /\ InitLayoutIdle
  /\ hsStage = "rendered"
  /\ hsWidth \in {800, 1200}
  /\ hsVh \in FlatHeights
  /\ hsReduced = FALSE
  /\ hsScrollProgress = 0
  /\ hsMousePosition = <<0, 0>>
  /\ hsTransform = XTransform(InitialTransform(hsWidth))
  /\ hsRaf = FALSE
  /\ hsDrawn = -1
  /\ stStage = "mounted"
  /\ stReduced = FALSE
  /\ stStaticWords = 0
  /\ \E delay \in WordDelays :
       stWords = [i \in 0..1 |->
                    [static |-> FALSE,
                     type |-> TypeOfWord(i, 1),
                     delay |-> IF i = 0 THEN 0 ELSE delay,
                     progress |-> XNum(0),
                     offset |-> XNum(InitialOffset(FALSE, FALSE, TypeOfWord(i, 1)))]]
  /\ \E zone \in Zones : stCenter = <<hsVh, hsVh, zone[1], zone[2]>>
  /\ stRaf = TRUE
  /\ stFrames = 0

NextDegenerate ==
  \/ HeroStep(HsMount)
  \/ \E y \in HeroScrollsOf(hsVh) : HeroStep(HsScrollListener(y))
  \/ HeroStep(HsFrameIEEE)
  \/ TextStep(updateAnimationIEEE)
  \/ \E wordCenter \in FlatCenters : TextStep(TextScrolledTo(wordCenter))

SpecDegenerate == InitDegenerate /\ [][NextDegenerate]_vars

-----------------------------------------------------------------------------
(* Teardown: the scroll tracker, the marquee, the hero section and a
   staggered text are mounted; events and frames arrive, and each component
   is unmounted at any moment.  A handler runs only while it is registered
   on window, a frame callback only while it is requested, the timer only
   while it is set: what the cleanups leave in place can still run *)

Components == {"scroll", "marquee", "hero", "text"}

\* window.addEventListener of the four components
MountedListeners ==
  {<<"scroll", "wheel">>, <<"scroll", "keydown">>, <<"scroll", "touchstart">>,
   <<"scroll", "touchmove">>, <<"scroll", "resize">>,
   <<"marquee", "resize">>, <<"marquee", "mousemove">>,
   <<"hero", "mousemove">>}

ListenersOf(c) == {l \in lifecycle.listeners : l[1] = c}

\* the callback `name` of component c runs: it is late if c is torn down
Ran(lc, name, c) ==
  [lc EXCEPT !.late = IF c \in lc.unmounted THEN @ \cup {name} ELSE @]

\* the state after the effects of the four components have run
InitTeardown ==
  /\ InitScrollWith({<<3000, 900>>}, EaseValues, <<"a">>)
  /\ marqueeOffset = marqueeLayout.initialOffset
  /\ selectedIndex = findCenterImageIndex(DESKTOP_HERO_IMAGES)
  /\ prevIndex = -1
  /\ isTransitioning = FALSE
  /\ offsetAnim = NoAnim
  /\ timerAt = -1
  /\ mouseX = 0
  /\ scrollProgress = 0
  /\ lastTime = 0
  /\ now = 0
  /\ applied = {}
  /\ nTicks = 0
  /\ nSelects = 0
  /\ heroStyle = [left |-> 5000, top |-> 5000, scale |-> ScaleUnit]
  /\ stripT = -1
  /\ isGrown = FALSE
  /\ navigated = -1
  /\ activated = <<>>
  /\ selectedAt = -1
  /\ InitSwIdle
  /\ InitLayoutIdle
  /\ hsStage = "mounted"
  /\ hsWidth = 1200
  /\ hsVh = 900
  /\ hsReduced = FALSE
  /\ hsScrollProgress = 0
  /\ hsMousePosition = <<0, 0>>
  /\ hsTransform = InitialTransform(1200)
  /\ hsRaf = TRUE
  /\ hsDrawn = -1
  /\ stStage = "mounted"
  /\ stReduced = FALSE
  /\ stStaticWords = 0
  /\ stWords = [i \in 0..0 |->
                  [static |-> FALSE, type |-> 2, delay |-> 0, progress |-> 0,
                   offset |-> InitialOffset(FALSE, FALSE, 2)]]
  /\ stCenter = 500
  /\ stRaf = TRUE
  /\ stFrames = 0
  /\ lifecycle = [unmounted |-> {}, listeners |-> MountedListeners,
                  frames |-> {"tick", "measure"}, late |-> {}]

\* a wheel event reaches handleWheel while it is registered
TdWheel ==
  /\ <<"scroll", "wheel">> \in lifecycle.listeners
  /\ nInputs < 1
  /\ HandleWheel(Px(120))
  /\ nInputs' = nInputs + 1
  /\ lifecycle' = Ran(lifecycle, "handleWheel", "scroll")
  /\ UNCHANGED <<pressed, marqueeVars, swVars, layoutVars, heroVars, textVars>>

\* a requested frame of the scroll loop runs
TdScrollFrame ==
  /\ UpdateScroll
  /\ lifecycle' = Ran(lifecycle, "updateScroll", "scroll")
  /\ UNCHANGED <<nInputs, pressed, marqueeVars, swVars, layoutVars, heroVars,
                 textVars>>

\* return () => { ... } of the effect that set the tracker up:
\* removeEventListener for the five listeners, cancelAnimationFrame(data.rafId)
UnmountScroll ==
  /\ "scroll" \notin lifecycle.unmounted
  /\ rafPending' = FALSE
  /\ lifecycle' = [lifecycle EXCEPT !.unmounted = @ \cup {"scroll"},
                                    !.listeners = @ \ ListenersOf("scroll")]
  /\ UNCHANGED <<contentHeight, innerHeight, current, target, ease, isScrolling,
                 transformY, scrollY, touchStart, scrollListeners, delivered,
                 threw, runVars, marqueeVars, swVars, layoutVars, heroVars,
                 textVars>>

\* a requested frame of the marquee runs tick, which requests the next one;
\* the frames are far apart, so that the timer of a select comes due
TdTick ==
  /\ "tick" \in lifecycle.frames
  /\ nTicks < 2
  /\ Tick(3600)
  /\ nTicks' = nTicks + 1
  /\ lifecycle' = Ran(lifecycle, "tick", "marquee")
  /\ UNCHANGED <<nSelects, nInputs, pressed, navigated, activated, scrollVars,
                 swVars, layoutVars, heroVars, textVars>>

\* requestAnimationFrame(measure) of the mount effect runs
TdMeasure ==
  /\ "measure" \in lifecycle.frames
  /\ lifecycle' = [Ran(lifecycle, "measure", "marquee")
                    EXCEPT !.frames = @ \ {"measure"}]
  /\ UNCHANGED <<scrollVars, runVars, marqueeVars, swVars, layoutVars, heroVars,
                 textVars>>

\* a click on an item of the mounted marquee
TdSelect ==
  /\ "marquee" \notin lifecycle.unmounted
  /\ nSelects < 1
  /\ HandleSelect(2)
  /\ nSelects' = nSelects + 1
  /\ UNCHANGED <<nTicks, nInputs, pressed, navigated, activated, scrollVars,
                 sideVars>>

\* the timer of handleSelect fires
TdTimeout ==
  /\ TransitionTimeout
  /\ lifecycle' = Ran(lifecycle, "timeout", "marquee")
  /\ UNCHANGED <<nTicks, nSelects, nInputs, pressed, navigated, activated,
                 scrollVars, swVars, layoutVars, heroVars, textVars>>

\* a mousemove reaches the handler of the marquee while it is registered
TdMarqueeMouse ==
  /\ <<"marquee", "mousemove">> \in lifecycle.listeners
  /\ HandleMouseMove(1000, 1000)
  /\ lifecycle' = Ran(lifecycle, "handleMouseMove", "marquee")
  /\ UNCHANGED <<nTicks, nSelects, nInputs, pressed, navigated, activated,
                 scrollVars, swVars, layoutVars, heroVars, textVars>>

\* the cleanups of FloatingGalleryHero: removeEventListener('resize',
\* measure), removeEventListener('mousemove', handleMouseMove),
\* cancelAnimationFrame(marqueeRafRef.current), clearTimeout(prevTimeoutRef.current)
UnmountMarquee ==
  /\ "marquee" \notin lifecycle.unmounted
  /\ timerAt' = -1
  /\ lifecycle' = [lifecycle EXCEPT !.unmounted = @ \cup {"marquee"},
                                    !.listeners = @ \ ListenersOf("marquee"),
                                    !.frames = @ \ {"tick"}]
  /\ UNCHANGED <<marqueeOffset, selectedIndex, prevIndex, isTransitioning,
                 offsetAnim, mouseX, scrollProgress, lastTime, now, applied,
                 nTicks, nSelects, heroStyle, stripT, isGrown, navigated,
                 activated, selectedAt, scrollVars, runVars, swVars, layoutVars,
                 heroVars, textVars>>

\* a mousemove reaches the handler of the hero while it is registered
TdHeroMouse ==
  /\ <<"hero", "mousemove">> \in lifecycle.listeners
  /\ HsHandleMouseMove(900, 450)
  /\ lifecycle' = Ran(lifecycle, "handleMouseMove", "hero")
  /\ UNCHANGED <<scrollVars, runVars, marqueeVars, swVars, layoutVars, textVars>>

\* the requested frame of the hero runs updateTransform
TdHeroFrame ==
  /\ HsFrame
  /\ lifecycle' = Ran(lifecycle, "updateTransform", "hero")
  /\ UNCHANGED <<scrollVars, runVars, marqueeVars, swVars, layoutVars, textVars>>

\* the cleanups of HeroSection: removeEventListener('mousemove', ...),
\* cancelAnimationFrame(rafRef.current)
UnmountHero ==
  /\ "hero" \notin lifecycle.unmounted
  /\ hsRaf' = FALSE
  /\ lifecycle' = [lifecycle EXCEPT !.unmounted = @ \cup {"hero"},
                                    !.listeners = @ \ ListenersOf("hero")]
  /\ UNCHANGED <<hsStage, hsWidth, hsVh, hsReduced, hsScrollProgress,
                 hsMousePosition, hsTransform, hsDrawn, scrollVars, runVars,
                 marqueeVars, swVars, layoutVars, textVars>>

\* the requested frame of the text runs updateAnimation
TdWordFrame ==
  /\ stFrames < 1
  /\ stFrames' = stFrames + 1
  /\ updateAnimation
  /\ lifecycle' = Ran(lifecycle, "updateAnimation", "text")
  /\ UNCHANGED <<scrollVars, runVars, marqueeVars, swVars, layoutVars, heroVars>>

\* the cleanup of useStaggeredText: cancelAnimationFrame(rafRef.current)
UnmountText ==
  /\ "text" \notin lifecycle.unmounted
  /\ stRaf' = FALSE
  /\ lifecycle' = [lifecycle EXCEPT !.unmounted = @ \cup {"text"}]
  /\ UNCHANGED <<stStage, stReduced, stStaticWords, stWords, stCenter, stFrames,
                 scrollVars, runVars, marqueeVars, swVars, layoutVars, heroVars>>

NextTeardown ==
  \/ TdWheel
  \/ TdScrollFrame
  \/ UnmountScroll
  \/ TdTick
  \/ TdMeasure
  \/ TdSelect
  \/ TdTimeout
  \/ TdMarqueeMouse
  \/ UnmountMarquee
  \/ TdHeroMouse
  \/ TdHeroFrame
  \/ UnmountHero
  \/ TdWordFrame
  \/ UnmountText

SpecTeardown == InitTeardown /\ [][NextTeardown]_vars

-----------------------------------------------------------------------------
(* Claims about the scroll tracker *)

\* the range [0, max(0, maxScroll)] and the clamp into it
InScrollRange(x) == 0 <= x /\ x <= Max(0, maxScroll)
ClampedInto(x) ==
  IF x < 0 THEN 0
  ELSE IF x > Max(0, maxScroll) THEN Max(0, maxScroll) ELSE x

\* C1: after any sequence of wheel, keydown, touch, scrollTo and resize
\* events, current and target lie in [0, max(0, maxScroll)], maxScroll being
\* contentHeight - viewportHeight; content shorter than the viewport
\* included.
C1_ScrollStateInRange == InScrollRange(current) /\ InScrollRange(target)

\* C2: scrollTo(position, true) makes getScrollPosition() return the
\* position clamped into [0, maxScroll] at once, with current = target,
\* whether or not the loop was running.
C2_InstantScrollClamps ==
  lastOp = "scrollToInstant" =>
    /\ getScrollPosition = ClampedInto(lastArg[1])
    /\ current = target

\* an instant scrollTo beyond the end of the page, made while a frame of
\* the loop is queued
C2_Witness ==
  /\ lastOp = "scrollToInstant"
  /\ lastArg[1] > maxScroll
  /\ maxScroll > 0
  /\ isScrolling
  /\ rafPending

\* the last value a listener received in the last frame
LastDelivered(l) == delivered[l][Len(delivered[l])]

\* the loop is idle at its target, the listeners told so
IdleAtTarget ==
  /\ ~isScrolling
  /\ ~rafPending
  /\ current = target
  /\ transformY = target
  /\ \A i \in 1..Len(scrollListeners) :
       /\ delivered[scrollListeners[i]] # <<>>
       /\ LastDelivered(scrollListeners[i]) = target

\* C3: after scrollTo(t, false) and no further input every frame strictly
\* decreases |target - current| while it is above 0.5, the loop ends after
\* finitely many frames, and it ends with current = target exactly, the
\* listeners notified with that target and no frame queued.
C3_Convergence ==
  /\ [][(UpdateScroll /\ AboveSnap(Abs(target - current)))
          => Abs(target' - current') < Abs(target - current)]_vars
  /\ [][(UpdateScroll /\ ~rafPending') => IdleAtTarget']_vars
  /\ (isScrolling ~> IdleAtTarget)

\* a loop started by a smooth scrollTo has run several frames and ended
C3_Witness ==
  /\ nInputs = 2
  /\ lastOp = "frame"
  /\ IdleAtTarget
  /\ target > Px(800)
  /\ ease = DefaultEase

\* C4: a listener that throws stops neither the notification of the other
\* listeners in that frame nor the loop: the tracker is never left with
\* isScrolling set and no frame queued.
C4_ListenerIsolation ==
  threw =>
    /\ \A i \in 1..Len(scrollListeners) : delivered[scrollListeners[i]] # <<>>
    /\ (isScrolling => rafPending)

\* C5: scrollToElement targets the element's offset inside the content,
\* whatever the current scroll position: start T + offset, center
\* T + h/2 - V/2 + offset, end T + h - V + offset, clamped to [0, maxScroll].
ElementGoal(elTop, elHeight, block, offset) ==
  CASE block = "center" ->
         elTop + (elHeight \div 2) - (innerHeight \div 2) + offset
    [] block = "end" -> elTop + elHeight - innerHeight + offset
    [] OTHER -> elTop + offset

C5_ScrollToElementOffset ==
  lastOp = "scrollToElement" =>
    target = ClampedInto(ElementGoal(lastArg[1], lastArg[2], lastArg[3],
                                     lastArg[4]))

\* C6: from rest at 0, n PageDown presses leave the content translated by
\* clamp(n * 0.9 * viewportHeight, 0, maxScroll) once the loop is idle, and
\* every press adds to target, also while the loop is running.
PagedTo(n) == ClampedInto((n * innerHeight * 9) \div 10)

C6_KeyboardPaging ==
  pressed >= 0 =>
    /\ target = PagedTo(pressed)
    /\ (~isScrolling => transformY = PagedTo(pressed))

\* two presses have scrolled a page with a 500 px viewport by 900 px and
\* the loop has come to rest
C6_Witness ==
  /\ pressed = 2
  /\ ~isScrolling
  /\ ~rafPending
  /\ innerHeight = Px(500)
  /\ transformY >= Px(900)

-----------------------------------------------------------------------------
(* Claims about the marquee *)

\* C7: shortestWrappingDelta(current, target, total) returns a delta with
\* |delta| <= total / 2 and wrap(current + delta) = wrap(target), for every
\* current and target, inside the strip or not; 0 when current = target;
\* 20, not -80, for current 5, target 25, total 100.
C7_ShortestWrappingDelta ==
  swDone =>
    /\ 2 * swDelta <= swTotal
    /\ 2 * swDelta >= -swTotal
    /\ (swCurrent + swDelta) % swTotal = swTarget % swTotal
    /\ (swCurrent = swTarget => swDelta = 0)
    /\ (swCurrent = 5 /\ swTarget = 25 /\ swTotal = 100 => swDelta = 20)

\* the delta of the spec's scenario has been computed
C7_Witness ==
  /\ swDone
  /\ swCurrent = 5
  /\ swTarget = 25
  /\ swTotal = 100
  /\ swDelta = 20

\* C8: select(index) with the index of the current selection changes
\* neither the selection, the previous index, the transitioning flag, the
\* installed animation, the pending timer nor the offset.
C8_SelectSameIsNoOp ==
  [][(nSelects' # nSelects /\ lastArg'[1] = selectedIndex)
       => UNCHANGED <<selectedIndex, prevIndex, isTransitioning, offsetAnim,
                      timerAt, marqueeOffset>>]_vars

\* the current selection was selected again while its shift was running,
\* inside the transition window
C8_Witness ==
  /\ lastOp = "select"
  /\ lastArg[1] = lastArg[2]
  /\ offsetAnim.active
  /\ offsetAnim.startTime # -1
  /\ isTransitioning
  /\ timerAt # -1

\* C9: a tick moves the offset by one mechanism at most: with an animation
\* installed the offset is the one of the animation and no drift is added,
\* the completing tick included; drift is applied only in ticks that start
\* without an animation.
C9_OneMechanismPerTick ==
  [][nTicks' # nTicks =>
       /\ Cardinality(applied') <= 1
       /\ (offsetAnim.active =>
             /\ applied' = {"shift"}
             /\ marqueeOffset' =
                  ShiftOffset(offsetAnim,
                              IF offsetAnim.startTime = -1 THEN now'
                              ELSE offsetAnim.startTime,
                              now', marqueeLayout.totalWidth))
       /\ ("drift" \in applied' => ~offsetAnim.active)]_vars

\* the tick that completed an animation, run after the transition timer
\* had fired: drift was allowed and the animation alone moved the offset
C9_Witness ==
  /\ lastOp = "tick"
  /\ lastArg[2]
  /\ applied = {"shift"}
  /\ ~offsetAnim.active

\* C10: after every tick 0 <= offset < totalStripWidth.
C10_OffsetInStrip ==
  /\ 0 <= marqueeOffset
  /\ marqueeOffset < marqueeLayout.totalWidth

\* a drift to the left has taken the offset through 0 to the end of the strip
C10_Witness ==
  /\ lastOp = "tick"
  /\ applied = {"drift"}
  /\ lastArg[1] < 100
  /\ marqueeOffset > marqueeLayout.totalWidth - 300

-----------------------------------------------------------------------------
(* Claims about the strip-shift animation *)

\* the offset that puts the centre of image i at the centre of the viewport
CentredOffset(i) ==
  WrapOffset(marqueeLayout.basePositions[i + 1]
               + (marqueeLayout.scaledWidths[i + 1] \div 2) - ViewportCentre * Vw,
             marqueeLayout.totalWidth)

\* a tick in which the installed animation completes
CompletingTick == nTicks' # nTicks /\ offsetAnim.active /\ ~offsetAnim'.active

\* the offset and the place of the selected image after a completing tick
CentredAfterTick ==
  /\ marqueeOffset' = CentredOffset(selectedIndex)
  /\ ItemX(marqueeLayout, selectedIndex, marqueeOffset')
       + (marqueeLayout.scaledWidths[selectedIndex + 1] \div 2)
       = ViewportCentre * Vw
  /\ heroStyle'.left = 5000
  /\ heroStyle'.top = 5000

\* C11 as stated: in the tick where the animation of the last select(i)
\* completes, the offset is wrap(basePosition[i] + scaledWidth[i]/2 - 50),
\* the centre of item i is at the centre of the viewport, its top is 50% and
\* its scale equals the scroll-driven hero scale.
C11_AsStated ==
  [][CompletingTick =>
       /\ CentredAfterTick
       /\ heroStyle'.scale = HeroScale(scrollProgress, innerHeight \div Scale)]_vars

\* C11, amended: as stated, the scale being the hero scale written with
\* four decimals (toFixed(4)).
C11_ShiftCentresSelection ==
  [][CompletingTick =>
       /\ CentredAfterTick
       /\ heroStyle'.scale =
            ToFixed(HeroScale(scrollProgress, innerHeight \div Scale),
                    ScaleUnit \div 10000)]_vars

\* the animation of a second select has completed on a scrolled page
C11_Witness ==
  /\ lastOp = "tick"
  /\ nSelects = 2
  /\ stripT = 1000
  /\ ~offsetAnim.active
  /\ selectedIndex # findCenterImageIndex(DESKTOP_HERO_IMAGES)
  /\ scrollProgress = 500

\* the start timestamp of the installed animation as the tick at now' sees it
StartSeen == IF offsetAnim.startTime = -1 THEN now' ELSE offsetAnim.startTime

\* C12: an animation ends by elapsed time: it is discarded in the first tick
\* whose timestamp is at least `duration` after its start timestamp (the
\* first tick after it was installed), whatever the gaps between frames;
\* its progress in a tick is min(1, elapsed / duration); once discarded it
\* is not applied in a later tick.
C12_ShiftEndsByElapsedTime ==
  [][nTicks' # nTicks =>
       IF offsetAnim.active
       THEN LET elapsed == now' - StartSeen
                duration == offsetAnim.duration
            IN  /\ offsetAnim'.active <=> elapsed < duration
                /\ offsetAnim'.active => offsetAnim'.startTime = StartSeen
                /\ IF elapsed >= duration THEN stripT' = 1000
                   ELSE /\ 2 * (stripT' * duration - 1000 * elapsed) <= duration
                        /\ 2 * (1000 * elapsed - stripT' * duration) <= duration
                /\ "shift" \in applied'
       ELSE /\ stripT' = -1
            /\ "shift" \notin applied'
            /\ ~offsetAnim'.active]_vars

\* one slow frame has ended the animation in its second tick
C12_Witness ==
  /\ lastOp = "tick"
  /\ nTicks = 2
  /\ stripT = 1000
  /\ ~offsetAnim.active

-----------------------------------------------------------------------------
(* Claims about activating the images *)

\* the hero is grown: the scroll position it was told of is past the grow
\* phase
Grown ==
  Max(0, scrollProgress) * 10
    >= (innerHeight \div Scale) * GROW_PHASE_VH_MULTIPLIER

\* C16: activating an item that is not the selection selects it and asks for
\* no page; activating the selection while the hero is grown asks for the
\* detail page of the selection and changes neither the selection nor the
\* offset; activating the selection while the hero is not grown asks for no
\* page
C16_ClickContract ==
  [][nInputs' # nInputs =>
       \A i \in SelectChoices :
         activated'[1] = i =>
           /\ i # selectedIndex =>
                /\ selectedIndex' = i
                /\ lastOp' = "select"
                /\ lastArg'[1] = i
                /\ navigated' = -1
           /\ (i = selectedIndex /\ Grown) =>
                /\ navigated' = i
                /\ selectedIndex' = selectedIndex
                /\ marqueeOffset' = marqueeOffset
           /\ (i = selectedIndex /\ ~Grown) => navigated' = -1]_vars

\* the selection was changed, the hero has grown and the selection was
\* activated
C16_Witness ==
  /\ navigated = 2
  /\ activated = <<2, 2, TRUE>>
  /\ nInputs = 2

-----------------------------------------------------------------------------
(* Claims about the marquee layout and the per-frame positions *)

\* the end of the last slot of a layout: base position, width, effective gap
StripEnd(layout) ==
  LET N == Len(layout.basePositions)
  IN  layout.basePositions[N] + layout.scaledWidths[N] + layout.effectiveGap

\* C19: for every non-empty image list totalWidth is at least 100 vw plus the
\* widest scaled width, the base positions start at 0 and increase strictly,
\* and the last base position plus its width plus the effective gap is
\* totalWidth, up to the half unit by which each slot's share of the extra
\* space is rounded
C19_LayoutInvariant ==
  layoutOut # <<>> =>
    LET N == Len(layoutImages)
    IN  /\ N > 0
        /\ \A i \in 1..N :
             layoutOut.totalWidth >= 100 * Vw + layoutOut.scaledWidths[i]
        /\ layoutOut.basePositions[1] = 0
        /\ \A i \in 1..(N - 1) :
             layoutOut.basePositions[i] < layoutOut.basePositions[i + 1]
        /\ 2 * Abs(StripEnd(layoutOut) - layoutOut.totalWidth) <= N

\* a layout of two images of different widths whose strip is widened to
\* 100 vw plus the widest image plus the gap: the effective gap is larger
\* than the gap that is left
C19_Witness ==
  /\ layoutOut # <<>>
  /\ Len(layoutImages) = 2
  /\ layoutOut.scaledWidths[1] < layoutOut.scaledWidths[2]
  /\ layoutOut.totalWidth - 100 * Vw - layoutOut.maxScaledWidth
       < layoutOut.effectiveGap

\* C20: for every item i and every offset o the position in a frame computed
\* from o is the position computed from o + totalWidth
C20_Periodicity ==
  layoutPos # <<>> => layoutPos[3] = layoutPos[4]

\* an item beyond the wrap threshold, drawn left of the viewport, at a
\* negative offset
C20_Witness ==
  /\ layoutPos # <<>>
  /\ layoutPos[2] < 0
  /\ layoutPos[3] < 0

-----------------------------------------------------------------------------
(* Claims about the hero transform *)

\* scale and translateY of a transform
PinAndScale(t) == [scale |-> t.scale, translateY |-> t.translateY]

\* a translateY in 1/HsUnit svh as a distance in 1/HsPx px, one svh being a
\* hundredth of the viewport height
SvhToPx(ty, vh) == MulFrac(ty, vh, (100 * HsUnit) \div HsPx)

\* updateTransform has run in a viewport that is animated
Animated == hsDrawn # -1 /\ hsWidth >= SmallScreen /\ ~hsReduced

\* C13: at scrollOffset = growPhaseEnd the GROWING and the HOLD formulas give
\* the same scale and translateY, at growPhaseEnd + holdDuration the HOLD and
\* the RELEASE formulas do, for every viewport height and both initial
\* scales; the transform that updateTransform sets at these offsets is the
\* value of either formula
C13_PhaseContinuity ==
  hsStage # "none" =>
    /\ \A width \in HeroWidths :
         PinAndScale(HsGrowing(HsGrowPhaseEnd(hsVh), hsVh, width))
           = HsHold(HsGrowPhaseEnd(hsVh), hsVh)
    /\ HsHold(HsHoldPhaseEnd(hsVh), hsVh) = HsRelease(hsVh)
    /\ (Animated /\ hsDrawn = HsGrowPhaseEnd(hsVh)) =>
         PinAndScale(hsTransform) = HsHold(hsDrawn, hsVh)
    /\ (Animated /\ hsDrawn = HsHoldPhaseEnd(hsVh)) =>
         PinAndScale(hsTransform) = HsRelease(hsVh)

\* updateTransform has run at growPhaseEnd with the smaller initial scale
C13_Witness ==
  /\ Animated
  /\ hsWidth >= MediumScreen
  /\ hsVh > 1
  /\ hsDrawn = HsGrowPhaseEnd(hsVh)

\* C14: for every scrollOffset >= growPhaseEnd the scale set by
\* updateTransform is the maximum scale, and translateY, as a distance in px,
\* is min(scrollOffset - growPhaseEnd, holdDuration)
C14_PinAndRelease ==
  (Animated /\ hsDrawn >= HsGrowPhaseEnd(hsVh)) =>
    /\ hsTransform.scale = MaxScalePercent * (HsUnit \div 100)
    /\ SvhToPx(hsTransform.translateY, hsVh)
         = Min(hsDrawn - HsGrowPhaseEnd(hsVh), HsHoldDuration(hsVh))

\* updateTransform has run in the middle of the hold phase
C14_Witness ==
  /\ Animated
  /\ hsVh > 1
  /\ hsDrawn > HsGrowPhaseEnd(hsVh)
  /\ hsDrawn < HsHoldPhaseEnd(hsVh)
  /\ hsTransform.translateY > 0

\* C15: whenever the viewport is narrower than 768 px or reduced motion is
\* preferred, the transform is {scale 1, translateY 0, parallaxX 0,
\* parallaxY 0} in every state from the first render on
C15_HardOverride ==
  (hsStage # "none" /\ (hsWidth < SmallScreen \/ hsReduced)) =>
    hsTransform = NeutralTransform

-----------------------------------------------------------------------------
(* Claims about the staggered text *)

StaticIndices == {i \in DOMAIN stWords : stWords[i].static}

\* C17: a static word is rendered with offset 0 at render time and after
\* every frame; exactly floor(totalWords * staticWords / 100) words are
\* static; with staticWords = 100 every word is at offset 0
C17_StaticWords ==
  stStage = "mounted" =>
    /\ \A i \in StaticIndices : stWords[i].offset = 0
    /\ Cardinality(StaticIndices)
         = numStaticWordsExact(Cardinality(DOMAIN stWords), stStaticWords)
    /\ stStaticWords = 100 => \A i \in DOMAIN stWords : stWords[i].offset = 0

\* C18: under reduced motion every word is rendered with offset 0, no frame
\* is ever requested, and the offsets stay 0 wherever the page scrolls
C18_ReducedMotionText ==
  (stStage = "mounted" /\ stReduced) =>
    /\ \A i \in DOMAIN stWords : stWords[i].offset = 0
    /\ ~stRaf
    /\ stFrames = 0

\* a text with words that are not static, under reduced motion, scrolled
\* into the zone
C18_Witness ==
  /\ stStage = "mounted"
  /\ stReduced
  /\ stCenter = 500
  /\ StaticIndices # DOMAIN stWords

-----------------------------------------------------------------------------
(* Claims about the drift after a strip-shift *)

\* the offset after one frame of ambient drift: the offset advanced by
\* (baseSpeed + pointerX * mouseSpeedFactor) * dt / 16.67, dt being the time
\* since the last frame capped at 50 ms, wrapped into the strip
DriftedFrom(offset, mx, lastFrame, timestamp) ==
  LET dt == Min(timestamp - (IF lastFrame = 0 THEN timestamp ELSE lastFrame),
                MaxFrameGap)
      speed == MARQUEE_BASE_SPEED * 1000 + mx * MARQUEE_MOUSE_SPEED
  IN  WrapOffset(offset + MulFrac(MulFrac(speed, dt * 100, FrameInterval),
                                  Vw, 1000000),
                 marqueeLayout.totalWidth)

\* a tick that starts after a selection, with no animation installed and the
\* page not scrolled past the section top
TickAfterShift ==
  /\ nTicks' # nTicks
  /\ nSelects > 0
  /\ ~offsetAnim.active
  /\ scrollProgress <= 0

-----------------------------------------------------------------------------
(* Claims about selecting again inside the transition window *)

\* a step of handleSelect past its early return
Reselects == selectedIndex' # selectedIndex

\* a step that clears previousIndex or the transitioning flag
ClearsTransition ==
  \/ prevIndex # -1 /\ prevIndex' = -1
  \/ isTransitioning /\ ~isTransitioning'

\* C30: a select that changes the selection makes the selection it
\* replaces the previous index and sets the one timer to
\* TRANSITION_DURATION_MS after its own time, whatever timer was pending;
\* previousIndex and the transitioning flag are cleared together, and only
\* TRANSITION_DURATION_MS or more after the most recent such select; and
\* previousIndex is null or differs from selectedIndex in every state.
C30_WindowRestarts ==
  /\ [][Reselects =>
          /\ prevIndex' = selectedIndex
          /\ isTransitioning'
          /\ timerAt' = now + TRANSITION_DURATION_MS]_vars
  /\ [][ClearsTransition =>
          /\ prevIndex' = -1 /\ ~isTransitioning' /\ timerAt' = -1
          /\ selectedAt # -1
          /\ now >= selectedAt + TRANSITION_DURATION_MS]_vars
  /\ [](prevIndex = -1 \/ prevIndex # selectedIndex)

\* C30 witness: the centre image is selected again before the timer of an
\* earlier select was due, and the transition has been cleared
\* TRANSITION_DURATION_MS after that second select.
C30_Witness ==
  /\ nSelects = 2
  /\ selectedIndex = findCenterImageIndex(DESKTOP_HERO_IMAGES)
  /\ selectedAt > 0 /\ selectedAt < TRANSITION_DURATION_MS
  /\ prevIndex = -1 /\ ~isTransitioning /\ timerAt = -1
  /\ now >= selectedAt + TRANSITION_DURATION_MS

-----------------------------------------------------------------------------
(* Claims about the wrap point of the marquee *)

\* const wrapThreshold = totalWidth - maxScaledWidth - 5
WrapThresholdOf(layout) ==
  layout.totalWidth - layout.maxScaledWidth - WrapMargin * Vw

\* C26: for every non-empty image list the wrap threshold
\* totalWidth - maxScaledWidth - 5 is at least 100 vw, and an item drawn at
\* threshold - totalWidth has its right edge at or left of 0, so an item is
\* moved by totalWidth only between two positions outside [0, 100vw].
C26_WrapPointHidden ==
  layoutOut # <<>> =>
    /\ WrapThresholdOf(layoutOut) >= 100 * Vw
    /\ \A i \in 1..Len(layoutImages) :
         WrapThresholdOf(layoutOut) - layoutOut.totalWidth
           + layoutOut.scaledWidths[i] <= 0

-----------------------------------------------------------------------------
(* Claims about the single scroll loop and its subscribers *)

\* C28: under any interleaving of wheel, keydown, touch-move, scrollTo and
\* frame callbacks the isScrolling flag is true exactly when a frame of the
\* scroll loop is pending (and no second frame is ever requested while one
\* is), so an input arriving while the tracker is idle starts the loop.
C28_SingleLoop == isScrolling <=> rafPending

\* the loop is idle: the flag is clear and no frame is pending
LoopIdle == ~isScrolling /\ ~rafPending

\* C29: no subscriber is left stale: every step that changes the position
\* and leaves the scroll loop idle (the last frame of a smooth scroll, an
\* instant scrollTo or scrollToElement, a resize) has delivered
\* getScrollPosition() as the last value to every registered listener.
C29_SubscribersFresh ==
  [][(current' # current /\ LoopIdle') =>
       \A i \in 1..Len(scrollListeners) :
         LET calls == delivered'[scrollListeners[i]]
         IN  calls # <<>> /\ calls[Len(calls)] = current']_vars

-----------------------------------------------------------------------------
(* Claims about the window of the word animation *)

\* a frame of updateAnimation has run
WordFrame == stFrames' # stFrames

\* C27: with the window the hook runs with (animationStart 0, animationEnd
\* 100), the progress of a non-static word is driven to 0 while the word is
\* at or below the bottom of the window and to 1 once it is at or above its
\* top: a frame run with the word low never raises its progress, and a
\* frame run with the word high never lowers it.
C27_WindowDirection ==
  [][WordFrame =>
       \A i \in DOMAIN stWords :
         ~stWords[i].static =>
           /\ stCenter >= 1000 => stWords'[i].progress <= stWords[i].progress
           /\ stCenter <= 0 => stWords'[i].progress >= stWords[i].progress]_vars

-----------------------------------------------------------------------------
(* Claims about staticWords outside 0..100 *)

\* a percentage brought into 0..100
ClampPercent(staticWords) == Max(0, Min(100, staticWords))

\* C23: staticWords is clamped into 0..100 when the words are rendered: below
\* 0 no word is static, above 100 every word is static, and the number of
\* static words is floor(totalWords * clamp(staticWords, 0, 100) / 100).
C23_StaticWordsClamped ==
  stStage = "mounted" =>
    /\ stStaticWords < 0 => StaticIndices = {}
    /\ stStaticWords > 100 => StaticIndices = DOMAIN stWords
    /\ Cardinality(StaticIndices)
         = numStaticWordsExact(Cardinality(DOMAIN stWords),
                               ClampPercent(stStaticWords))

-----------------------------------------------------------------------------
(* Claims about degenerate geometry *)

Finite(x) == x.k = "num"

\* C24: with a window of height 0, with animationStart = animationEnd or
\* with a word delay of 1, no ratio is taken over a zero denominator: the
\* scale, the translateY and the parallax offsets set by every frame of the
\* hero, and the progress and the offset of every word after every frame of
\* the word animation, are finite numbers.
C24_DegenerateGeometry ==
  /\ (hsStage = "mounted" /\ hsDrawn # -1) =>
       /\ Finite(hsTransform.scale)
       /\ Finite(hsTransform.translateY)
       /\ Finite(hsTransform.parallaxX)
       /\ Finite(hsTransform.parallaxY)
  /\ stFrames > 0 =>
       \A i \in DOMAIN stWords :
         Finite(stWords[i].progress) /\ Finite(stWords[i].offset)

-----------------------------------------------------------------------------
(* Claims about a missing DOM target *)

\* C25: a missing element reference is transient: a frame that finds the
\* container of the text absent skips it and leaves the loop scheduled, so
\* that the words are animated again once the container is back; without
\* reduced motion a frame of the word animation is requested in every state.
C25_LoopSurvivesMissingTarget ==
  (stStage # "none" /\ ~stReduced) => stRaf

-----------------------------------------------------------------------------
(* Claims about teardown *)

\* C21: after a component that owns a per-frame loop is unmounted none of
\* its frame callbacks, timers and window listeners runs again, and every
\* listener it registered on window has been removed, whether it is
\* unmounted with its loop idle or with a frame pending.
C21_Teardown ==
  /\ lifecycle.late = {}
  /\ \A l \in lifecycle.listeners : l[1] \notin lifecycle.unmounted

====
